---- MODULE Spec2Model ----
(***************************************************************************)
(* Model of the synthetic data pipeline of pg-data-synthesizer:            *)
(*   main.py            run_synthesis (FK-count ordering, per-table try)   *)
(*   data_generator.py  DataGenerator (in-memory id registry)              *)
(*   generator.py       SyntheticDataGenerator (dvdrental prototype)       *)
(***************************************************************************)
EXTENDS Integers, Sequences, FiniteSets, TLC

VARIABLES
    driver,           \* which entry point runs: generate_data, generate_fake_data, run_synthesis
    schema_metadata,  \* table name -> [columns, primary_keys, foreign_keys]
    tables,           \* the list of table names handed to the entry point
    row_counts,       \* table name -> number of rows to generate
    lookup_fails,     \* tables whose inspector.get_columns raises (run_synthesis)
    schema_readable,  \* FALSE when the schema source cannot be read at all
    ordered_tables,   \* the generation order
    idx,              \* position in ordered_tables of the table being processed
    table_data,       \* rows generated so far for the current table
    id_registry,      \* table name -> sequence of registered primary keys
    synthetic_data,   \* table name -> sequence of rows
    warnings,         \* sequence of <<table, reason>> printed as warnings
    written,          \* TRUE once the dataset has been dumped to JSON
    draws,            \* history: every foreign-key column value generated
    attempts,         \* samples rejected so far for the row being synthesized
    pc,               \* start, tables, rows, write, done, raised; the validators' phases
    source_db,        \* what the source database answers to the validators' queries
    structured_pk_map,\* validators: table -> key column -> set of values in the dataset
    all_leaks,        \* validate_shadow_database: the leak messages collected
    orphan_count,     \* validators: foreign key values not found in the parent's keys
    total_fk_checks,  \* comprehensive_validation: foreign key values examined
    report,           \* validators: section -> what the section printed as its result
    exit_code,        \* <<>> while running, <<status>> once the process has exited
    probe_column,     \* _generate_value_for_column called on its own: the arguments
    probe_value,      \* <<>> before the call returns, <<v>> once it has returned v
    dest_db,          \* loader: the committed state of the destination database
    connection,       \* loader: <<>>, or <<tables>> as the open transaction sees them
    executed          \* loader: history of the statements that were carried out

vars == <<driver, schema_metadata, tables, row_counts, lookup_fails, schema_readable,
          ordered_tables, idx, table_data, id_registry, synthetic_data,
          warnings, written, draws, attempts, pc,
          source_db, structured_pk_map, all_leaks, orphan_count, total_fk_checks,
          report, exit_code, probe_column, probe_value,
                dest_db, connection, executed>>

\* the state of the validators and of a single call of the value generator,
\* which the synthesis entry points never touch
audit_vars == <<source_db, structured_pk_map, all_leaks, orphan_count, total_fk_checks,
                report, exit_code, probe_column, probe_value,
                dest_db, connection, executed>>

----------------------------------------------------------------------------
(* Bounds *)

MaxRows == 2
MaxGraphFks == 2

(* Program constants *)

FallbackMin == 1
FallbackMax == 10

----------------------------------------------------------------------------
(* Sequences and dictionaries *)

Range(s) == {s[k] : k \in DOMAIN s}

IndexOf(s, x) == IF x \in Range(s) THEN CHOOSE k \in DOMAIN s : s[k] = x /\ \A j \in 1..(k-1) : s[j] # x
                 ELSE 0

EmptyDict == [x \in {} |-> <<>>]

DictPut(d, k, v) == [x \in (DOMAIN d) \cup {k} |-> IF x = k THEN v ELSE d[x]]

----------------------------------------------------------------------------
(* Table and column names as character strings.  Python compares str       *)
(* values code point by code point; '_' (95) sorts before the lowercase     *)
(* letters.                                                                 *)

NameChars ==
    [ actor            |-> <<97, 99, 116, 111, 114>>,
      address          |-> <<97, 100, 100, 114, 101, 115, 115>>,
      city             |-> <<99, 105, 116, 121>>,
      country          |-> <<99, 111, 117, 110, 116, 114, 121>>,
      customer         |-> <<99, 117, 115, 116, 111, 109, 101, 114>>,
      film             |-> <<102, 105, 108, 109>>,
      film_actor       |-> <<102, 105, 108, 109, 95, 97, 99, 116, 111, 114>>,
      ghost            |-> <<103, 104, 111, 115, 116>>,
      inventory        |-> <<105, 110, 118, 101, 110, 116, 111, 114, 121>>,
      log              |-> <<108, 111, 103>>,
      rental           |-> <<114, 101, 110, 116, 97, 108>>,
      staff            |-> <<115, 116, 97, 102, 102>>,
      store            |-> <<115, 116, 111, 114, 101>>,
      create_date      |-> <<99, 114, 101, 97, 116, 101, 95, 100, 97, 116, 101>>,
      customer_id      |-> <<99, 117, 115, 116, 111, 109, 101, 114, 95, 105, 100>>,
      email            |-> <<101, 109, 97, 105, 108>>,
      manager_staff_id |-> <<109, 97, 110, 97, 103, 101, 114, 95, 115, 116, 97, 102, 102, 95, 105, 100>>,
      rental_id        |-> <<114, 101, 110, 116, 97, 108, 95, 105, 100>>,
      reports_to       |-> <<114, 101, 112, 111, 114, 116, 115, 95, 116, 111>>,
      staff_id         |-> <<115, 116, 97, 102, 102, 95, 105, 100>>,
      store_id         |-> <<115, 116, 111, 114, 101, 95, 105, 100>> ]

RECURSIVE SeqLess(_, _)
SeqLess(a, b) ==
    IF b = <<>> THEN FALSE
    ELSE IF a = <<>> THEN TRUE
    ELSE IF Head(a) # Head(b) THEN Head(a) < Head(b)
    ELSE SeqLess(Tail(a), Tail(b))

StrLess(a, b) == SeqLess(NameChars[a], NameChars[b])

----------------------------------------------------------------------------
(* Schema metadata, in the shape SQLAlchemy's inspector returns it *)

Col(name, type, nullable) == [name |-> name, type |-> type, nullable |-> nullable]

Fk(col, ref) == [constrained_columns |-> <<col>>, referred_table |-> ref]

TableMeta(columns, pks, fks) == [columns |-> columns, primary_keys |-> pks, foreign_keys |-> fks]

ColumnNames(meta) == {meta.columns[k].name : k \in DOMAIN meta.columns}

\* inspector.get_real_foreign_keys: a dict column name -> referred table
FksMap(meta) ==
    LET cols == UNION {Range(meta.foreign_keys[k].constrained_columns) : k \in DOMAIN meta.foreign_keys}
    IN  [c \in cols |->
            meta.foreign_keys[CHOOSE k \in DOMAIN meta.foreign_keys :
                /\ c \in Range(meta.foreign_keys[k].constrained_columns)
                /\ \A j \in (k+1)..Len(meta.foreign_keys) :
                       c \notin Range(meta.foreign_keys[j].constrained_columns)].referred_table]

\* the tables a table references by foreign key
ReferencedTables(meta) == {meta.foreign_keys[k].referred_table : k \in DOMAIN meta.foreign_keys}

----------------------------------------------------------------------------
(* Dependency resolvers *)

\* main.py calculate_foreign_key_count: len(get_real_foreign_keys(t)); the
\* inspector swallows lookup errors and returns an empty dict
calculate_foreign_key_count(meta, t) ==
    IF t \in DOMAIN meta THEN Cardinality(DOMAIN FksMap(meta[t])) ELSE 0

\* the comparison of a sort that runs in descending order (reverse=True)
KeyGreater(meta, a, b) ==
    \/ calculate_foreign_key_count(meta, a) > calculate_foreign_key_count(meta, b)
    \/ /\ calculate_foreign_key_count(meta, a) = calculate_foreign_key_count(meta, b)
       /\ StrLess(b, a)

\* the sort key (foreign key count, table name), compared as Python tuples
KeyLess(meta, a, b) ==
    \/ calculate_foreign_key_count(meta, a) < calculate_foreign_key_count(meta, b)
    \/ /\ calculate_foreign_key_count(meta, a) = calculate_foreign_key_count(meta, b)
       /\ StrLess(a, b)

\* sorted() is stable: x goes behind every element whose key is not greater
RECURSIVE InsertByKey(_, _, _)
InsertByKey(meta, s, x) ==
    IF s = <<>> THEN <<x>>
    ELSE IF KeyLess(meta, x, Head(s)) THEN <<x>> \o s
    ELSE <<Head(s)>> \o InsertByKey(meta, Tail(s), x)

RECURSIVE SortFrom(_, _, _)
SortFrom(meta, acc, rest) ==
    IF rest = <<>> THEN acc
    ELSE SortFrom(meta, InsertByKey(meta, acc, Head(rest)), Tail(rest))

\* main.py:51  sorted(all_tables, key=lambda t: (calculate_foreign_key_count(t), t))
SortedTables(meta, all_tables) == SortFrom(meta, <<>>, all_tables)

priority_order == <<"address", "customer", "film", "rental">>

RECURSIVE AppendRemaining(_, _)
AppendRemaining(ordered, ts) ==
    IF ts = <<>> THEN ordered
    ELSE AppendRemaining(IF Head(ts) \in Range(ordered) THEN ordered ELSE Append(ordered, Head(ts)),
                         Tail(ts))

\* DataGenerator._order_tables_by_dependencies
OrderTablesByDependencies(ts) ==
    AppendRemaining(SelectSeq(priority_order, LAMBDA t : t \in Range(ts)), ts)

\* generator.py:234-242, the same fixed order inlined in generate_fake_data
TablesToGenerate(ts) ==
    AppendRemaining(SelectSeq(priority_order, LAMBDA t : t \in Range(ts)), ts)

----------------------------------------------------------------------------
(* Value generation for non-key columns.  Faker's output is abstracted to  *)
(* the name of the provider that produced it; None is the string "None".   *)

None == "None"

\* the keywords tested with `in column_type` that each declared type contains
TypeKeywords(column_type) ==
    CASE column_type = "INTEGER"       -> {"INTEGER"}
      [] column_type = "SMALLINT"      -> {"SMALLINT"}
      [] column_type = "VARCHAR(50)"   -> {"VARCHAR", "("}
      [] column_type = "VARCHAR(255)"  -> {"VARCHAR", "("}
      [] column_type = "VARCHAR(MAX)"  -> {"VARCHAR", "("}
      [] column_type = "TEXT[]"        -> {"TEXT"}
      [] column_type = "TEXT"          -> {"TEXT"}
      [] column_type = "NUMERIC(5, 2)" -> {"NUMERIC", "("}
      [] column_type = "BOOLEAN"       -> {"BOOLEAN"}
      [] column_type = "DATE"          -> {"DATE"}
      [] column_type = "TIMESTAMP"     -> {"TIMESTAMP", "TIME"}
      [] OTHER                         -> {}

\* the keywords tested with `in column_lower` that each column name contains
NameKeywords(column_name) ==
    CASE column_name = "email"        -> {"email"}
      [] column_name = "first_name"   -> {"first_name"}
      [] column_name = "last_name"    -> {"last_name"}
      [] column_name = "address"      -> {"address"}
      [] column_name = "address2"     -> {"address", "address2"}
      [] column_name = "phone"        -> {"phone"}
      [] column_name = "title"        -> {"title"}
      [] column_name = "release_year" -> {"year"}
      [] column_name = "rental_rate"  -> {"rate"}
      [] column_name = "active"       -> {"active"}
      [] column_name = "rating"       -> {"rating"}
      [] OTHER                        -> {}

\* the branches shared by both generators once the type is not text-like
NonTextValue(column_name, column_type) ==
    LET ty == TypeKeywords(column_type)
        nm == NameKeywords(column_name)
    IN  IF "INTEGER" \in ty \/ "SMALLINT" \in ty
        THEN IF "year" \in nm THEN {"year"}
             ELSE IF "rating" \in nm THEN {"int_1_5"}
             ELSE IF "duration" \in nm THEN {"int_1_7"}
             ELSE IF "length" \in nm THEN {"int_60_180"}
             ELSE IF "active" \in nm THEN {"int_0_1"}
             ELSE {"int_1_100"}
        ELSE IF "NUMERIC" \in ty \/ "DECIMAL" \in ty
        THEN IF "amount" \in nm \/ "rate" \in nm \/ "cost" \in nm THEN {"decimal_amount"}
             ELSE {"decimal"}
        ELSE IF "BOOLEAN" \in ty THEN {"boolean"}
        ELSE IF "DATE" \in ty /\ "TIME" \notin ty THEN {"date"}
        ELSE IF "TIMESTAMP" \in ty \/ "DATETIME" \in ty THEN {"timestamp"}
        ELSE {"word"}

\* int(column_type.split('(')[1].split(')')[0]): <<n>>, or <<>> when int
\* raises ValueError
MaxLen(column_type) ==
    CASE column_type = "VARCHAR(50)"  -> <<50>>
      [] column_type = "VARCHAR(255)" -> <<255>>
      [] OTHER                        -> <<>>

\* the value that stands for ValueError leaving the function
ValueError == "ValueError"

\* the branch taken when the type holds "(": text cut to the declared length;
\* DataGenerator guards the parse with try/except and falls through to
\* faker.word(), SyntheticDataGenerator lets the exception escape
LengthLimitedText(column_type, guarded) ==
    IF MaxLen(column_type) # <<>> THEN {"text"}
    ELSE IF guarded THEN {"word"}
    ELSE {ValueError}

\* the keyword chain of the text branch behind the address rules
TextValueTail(column_name, column_type, guarded) ==
    LET ty == TypeKeywords(column_type)
        nm == NameKeywords(column_name)
    IN  IF "district" \in nm THEN {"city"}
        ELSE IF "phone" \in nm THEN {"phone_number"}
        ELSE IF "postal" \in nm \/ "zip" \in nm THEN {"postcode"}
        ELSE IF "city" \in nm THEN {"city"}
        ELSE IF "country" \in nm THEN {"country"}
        ELSE IF "title" \in nm THEN {"sentence"}
        ELSE IF "description" \in nm THEN {"text"}
        ELSE IF "username" \in nm THEN {"user_name"}
        ELSE IF "password" \in nm THEN {"password"}
        ELSE IF "(" \in ty THEN LengthLimitedText(column_type, guarded)
        ELSE {"word"}

\* DataGenerator._generate_value_for_column: the set of values it can return
GenerateValueForColumn(column_name, column_type, is_nullable) ==
    LET ty == TypeKeywords(column_type)
        nm == NameKeywords(column_name)
    IN  (IF is_nullable THEN {None} ELSE {}) \cup
        (IF "VARCHAR" \in ty \/ "TEXT" \in ty \/ "CHARACTER VARYING" \in ty
         THEN IF "email" \in nm THEN {"email"}
              ELSE IF "first_name" \in nm THEN {"first_name"}
              ELSE IF "last_name" \in nm THEN {"last_name"}
              ELSE IF column_name = "address" THEN {"street_address"}
              ELSE IF "address2" \in nm THEN {"secondary_address", None}
              ELSE TextValueTail(column_name, column_type, TRUE)
         ELSE NonTextValue(column_name, column_type))

\* SyntheticDataGenerator._generate_value_for_column
FakeValueForColumn(column_name, column_type, is_nullable) ==
    LET ty == TypeKeywords(column_type)
        nm == NameKeywords(column_name)
    IN  (IF is_nullable THEN {None} ELSE {}) \cup
        (IF "VARCHAR" \in ty \/ "TEXT" \in ty
         THEN IF "email" \in nm THEN {"email"}
              ELSE IF "first_name" \in nm THEN {"first_name"}
              ELSE IF "last_name" \in nm THEN {"last_name"}
              ELSE IF "address" \in nm /\ column_name # "address2" THEN {"street_address"}
              ELSE IF "address2" \in nm THEN {"secondary_address", None}
              ELSE TextValueTail(column_name, column_type, FALSE)
         ELSE NonTextValue(column_name, column_type))

----------------------------------------------------------------------------
(* Record generation *)

NoTable == ""

\* the referred table of the first foreign key whose constrained columns
\* hold the column (the for/break loop), NoTable when there is none
FkReferredTable(meta, col_name) ==
    LET hits == {k \in DOMAIN meta.foreign_keys : col_name \in Range(meta.foreign_keys[k].constrained_columns)}
    IN  IF hits = {} THEN NoTable
        ELSE meta.foreign_keys[CHOOSE k \in hits : \A j \in hits : k <= j].referred_table

\* the guard without its emptiness test
RegistryHasEntry(reg, referenced_table) ==
    referenced_table \in DOMAIN reg

\* the registry guard of the foreign key branch
RegistryHasIds(reg, referenced_table) ==
    referenced_table \in DOMAIN reg /\ reg[referenced_table] # <<>>

\* the value that stands for Faker raising on an empty sequence
IndexError == -1

\* faker.random_element(elements): any element; raises when there is none
random_element(elements) ==
    IF elements = <<>> THEN {IndexError} ELSE Range(elements)

\* a foreign key branch without fallback, which waits for the referenced
\* table to have keys
ForeignKeyValuesWaiting(reg, referenced_table) ==
    IF RegistryHasIds(reg, referenced_table)
    THEN random_element(reg[referenced_table])
    ELSE {}

\* the values the foreign key branch can produce
ForeignKeyValues(reg, referenced_table) ==
    IF RegistryHasIds(reg, referenced_table)
    THEN random_element(reg[referenced_table])
    ELSE FallbackMin..FallbackMax

\* the key columns of a table: primary key columns and foreign key columns
KeyColumns(meta) ==
    {c \in ColumnNames(meta) : c \in Range(meta.primary_keys) \/ FkReferredTable(meta, c) # NoTable}

\* an exception escaped while the record was built
RecordRaised(meta, record) ==
    \/ \E c \in KeyColumns(meta) : record[c] = IndexError
    \/ \E c \in DOMAIN record \ KeyColumns(meta) : record[c] = ValueError

\* one column of _generate_record: primary key first, then foreign key,
\* then the typed value; variant selects the value generator
ColumnValues(meta, column, record_id, reg, variant) ==
    IF column.name \in Range(meta.primary_keys) THEN {record_id}
    ELSE IF FkReferredTable(meta, column.name) # NoTable
    THEN ForeignKeyValues(reg, FkReferredTable(meta, column.name))
    ELSE IF variant = "fake"
    THEN FakeValueForColumn(column.name, column.type, column.nullable)
    ELSE GenerateValueForColumn(column.name, column.type, column.nullable)

RECURSIVE RecordsUpTo(_, _, _, _, _)
RecordsUpTo(meta, k, record_id, reg, variant) ==
    IF k = 0 THEN {EmptyDict}
    ELSE {DictPut(r, meta.columns[k].name, v) :
             r \in RecordsUpTo(meta, k - 1, record_id, reg, variant),
             v \in ColumnValues(meta, meta.columns[k], record_id, reg, variant)}

\* record ids counted from zero, as range(records_per_table) would
GenerateRecordZeroBased(meta, record_id, reg) ==
    RecordsUpTo(meta, Len(meta.columns), record_id - 1, reg, "data")

\* DataGenerator._generate_record: the records it can return
GenerateRecord(meta, record_id, reg) ==
    RecordsUpTo(meta, Len(meta.columns), record_id, reg, "data")

\* SyntheticDataGenerator._generate_record_for_table
GenerateRecordForTable(meta, record_id, reg) ==
    RecordsUpTo(meta, Len(meta.columns), record_id, reg, "fake")

\* a generator that never registers the key of the row
RegisterNothing(reg, table_name, pk_column, record) == reg

\* "if pk_column in record: self.id_registry[table_name].append(record[pk_column])"
RegisterId(reg, table_name, pk_column, record) ==
    IF pk_column \in DOMAIN record
    THEN [reg EXCEPT ![table_name] = Append(@, record[pk_column])]
    ELSE reg

\* history of the foreign key columns of one generated record
DrawsOfRecord(table_name, meta, record_id, record, reg) ==
    {[table |-> table_name, row |-> record_id, col |-> c,
      ref |-> FkReferredTable(meta, c), value |-> record[c],
      src |-> IF c \in Range(meta.primary_keys) THEN "record_id"
              ELSE IF RegistryHasIds(reg, FkReferredTable(meta, c)) THEN "registry"
              ELSE "fallback",
      ids |-> IF FkReferredTable(meta, c) \in DOMAIN reg THEN reg[FkReferredTable(meta, c)] ELSE <<>>] :
        c \in {d \in DOMAIN record : FkReferredTable(meta, d) # NoTable}}

\* generate_table_data is called by run_synthesis but defined nowhere in the
\* sources at hand; its rows follow the Value Synthesizer contract: a foreign
\* key column samples the registry (or falls back), a primary key column that
\* is no foreign key reserves the next sequential integer
SynthesizedColumnValues(meta, column, record_id, reg) ==
    IF FkReferredTable(meta, column.name) # NoTable
    THEN ForeignKeyValues(reg, FkReferredTable(meta, column.name))
    ELSE IF column.name \in Range(meta.primary_keys) THEN {record_id}
    ELSE GenerateValueForColumn(column.name, column.type, column.nullable)

RECURSIVE SynthesizedUpTo(_, _, _, _)
SynthesizedUpTo(meta, k, record_id, reg) ==
    IF k = 0 THEN {EmptyDict}
    ELSE {DictPut(r, meta.columns[k].name, v) :
             r \in SynthesizedUpTo(meta, k - 1, record_id, reg),
             v \in SynthesizedColumnValues(meta, meta.columns[k], record_id, reg)}

SynthesizeRow(meta, record_id, reg) == SynthesizedUpTo(meta, Len(meta.columns), record_id, reg)

DrawsOfRow(table_name, meta, record_id, record, reg) ==
    {[table |-> table_name, row |-> record_id, col |-> c,
      ref |-> FkReferredTable(meta, c), value |-> record[c],
      src |-> IF RegistryHasIds(reg, FkReferredTable(meta, c)) THEN "registry" ELSE "fallback",
      ids |-> IF FkReferredTable(meta, c) \in DOMAIN reg THEN reg[FkReferredTable(meta, c)] ELSE <<>>] :
        c \in {d \in DOMAIN record : FkReferredTable(meta, d) # NoTable}}

\* the primary key of a row, as the tuple of its key column values
KeyTuple(meta, record) == [k \in DOMAIN meta.primary_keys |-> record[meta.primary_keys[k]]]

\* a composite primary key whose every column is also a foreign key
CompositeAllFk(meta) ==
    /\ Len(meta.primary_keys) >= 2
    /\ \A k \in DOMAIN meta.primary_keys : FkReferredTable(meta, meta.primary_keys[k]) # NoTable

\* the budget of the composite key collision retry
MaxCollisionAttempts == 100

\* the sampled row collides with a used key tuple and the budget allows one
\* more sample; the sample that uses up the budget is accepted as it is
MustResample(meta, rows, record, rejected) ==
    /\ CompositeAllFk(meta)
    /\ KeyTuple(meta, record) \in {KeyTuple(meta, rows[k]) : k \in DOMAIN rows}
    /\ rejected + 1 < MaxCollisionAttempts

----------------------------------------------------------------------------
(* Schemas the runs are started on *)

IdCol(name) == Col(name, "INTEGER", FALSE)

\* Scenario A: customer and rental
ShopSchema ==
    [tables |-> <<"rental", "customer">>,
     meta |-> [customer |-> TableMeta(<<IdCol("customer_id"), Col("email", "VARCHAR(50)", TRUE)>>,
                                      <<"customer_id">>, <<>>),
               rental   |-> TableMeta(<<IdCol("rental_id"), IdCol("customer_id")>>,
                                      <<"rental_id">>, <<Fk("customer_id", "customer")>>)]]

\* acyclic chain inventory -> store -> address
StockSchema ==
    [tables |-> <<"inventory", "store", "address">>,
     meta |-> [address   |-> TableMeta(<<IdCol("address_id")>>, <<"address_id">>, <<>>),
               store     |-> TableMeta(<<IdCol("store_id"), IdCol("address_id")>>,
                                       <<"store_id">>, <<Fk("address_id", "address")>>),
               inventory |-> TableMeta(<<IdCol("inventory_id"), IdCol("store_id")>>,
                                       <<"inventory_id">>, <<Fk("store_id", "store")>>)]]

\* a self-referencing table
ReportsSchema ==
    [tables |-> <<"staff">>,
     meta |-> [staff |-> TableMeta(<<IdCol("staff_id"), IdCol("reports_to")>>,
                                   <<"staff_id">>, <<Fk("reports_to", "staff")>>)]]

\* mutually referencing tables, as staff and store in dvdrental
StaffStoreSchema ==
    [tables |-> <<"store", "staff">>,
     meta |-> [staff |-> TableMeta(<<IdCol("staff_id"), IdCol("store_id")>>,
                                   <<"staff_id">>, <<Fk("store_id", "store")>>),
               store |-> TableMeta(<<IdCol("store_id"), IdCol("manager_staff_id")>>,
                                   <<"store_id">>, <<Fk("manager_staff_id", "staff")>>)]]

\* Scenario B: a table without primary key, and a requested table without metadata
LogSchema ==
    [tables |-> <<"ghost", "log", "customer">>,
     meta |-> [log      |-> TableMeta(<<Col("message", "TEXT", FALSE)>>, <<>>, <<>>),
               customer |-> TableMeta(<<IdCol("customer_id"), Col("active", "BOOLEAN", FALSE)>>,
                                      <<"customer_id">>, <<>>)]]

\* a composite primary key whose columns are all foreign keys
CastSchema ==
    [tables |-> <<"film_actor", "actor", "film">>,
     meta |-> [actor      |-> TableMeta(<<IdCol("actor_id")>>, <<"actor_id">>, <<>>),
               film       |-> TableMeta(<<IdCol("film_id"), Col("title", "VARCHAR(50)", FALSE)>>,
                                        <<"film_id">>, <<>>),
               film_actor |-> TableMeta(<<IdCol("actor_id"), IdCol("film_id")>>,
                                        <<"actor_id", "film_id">>,
                                        <<Fk("actor_id", "actor"), Fk("film_id", "film")>>)]]

\* a foreign key to a table that is not part of the schema
DanglingSchema ==
    [tables |-> <<"rental">>,
     meta |-> [rental |-> TableMeta(<<IdCol("rental_id"), IdCol("inventory_id")>>,
                                    <<"rental_id">>, <<Fk("inventory_id", "inventory")>>)]]

Schemas == {ShopSchema, StockSchema, ReportsSchema, StaffStoreSchema,
            LogSchema, CastSchema, DanglingSchema}

\* generator.py:37-45, the registry SyntheticDataGenerator is constructed with
FakeRegistry ==
    [t \in {"customer", "film", "address", "rental", "staff", "inventory", "store"} |-> <<>>]

----------------------------------------------------------------------------
(* Initial states: one entry point, one schema, row counts *)

Drivers == {"generate_data", "generate_fake_data", "run_synthesis"}

\* inspector.get_table_names lists the tables the schema has
AllTables(schema) == SelectSeq(schema.tables, LAMBDA t : t \in DOMAIN schema.meta)

\* no validator is running and no single call of the value generator is
\* under way
AuditIdle ==
    /\ probe_column = EmptyDict
    /\ probe_value = <<>>
    /\ dest_db = [types |-> {}, tables |-> EmptyDict]
    /\ connection = <<>>
    /\ executed = <<>>
    /\ source_db = EmptyDict
    /\ structured_pk_map = EmptyDict
    /\ all_leaks = {}
    /\ orphan_count = 0
    /\ total_fk_checks = 0
    /\ report = EmptyDict
    /\ exit_code = <<>>

Init ==
    /\ driver \in Drivers
    /\ \E schema \in Schemas :
        /\ schema_metadata = schema.meta
        /\ \/ /\ driver \in {"generate_data", "generate_fake_data"}
              /\ tables = schema.tables
              /\ \E records_per_table \in 0..MaxRows :
                    row_counts = [t \in Range(tables) |-> records_per_table]
              /\ lookup_fails = {}
              /\ schema_readable = TRUE
           \/ /\ driver = "generate_data"
              /\ schema = CastSchema
              /\ tables = schema.tables
              /\ row_counts = [t \in Range(tables) |-> FallbackMax + 1]
              /\ lookup_fails = {}
              /\ schema_readable = TRUE
           \/ /\ driver = "run_synthesis"
              /\ tables = AllTables(schema)
              /\ \/ /\ row_counts \in [Range(tables) -> (MaxRows - 1)..MaxRows]
                    /\ lookup_fails = {}
                    /\ schema_readable = TRUE
                 \/ /\ \E n \in 0..(MaxRows - 1) : row_counts = [t \in Range(tables) |-> n]
                    /\ lookup_fails \in {{}} \cup {{t} : t \in Range(tables)}
                    /\ schema_readable = TRUE
                 \/ /\ row_counts = [t \in Range(tables) |-> MaxRows]
                    /\ lookup_fails = {}
                    /\ schema_readable = FALSE
    /\ ordered_tables = <<>>
    /\ idx = 0
    /\ table_data = <<>>
    /\ id_registry = IF driver = "generate_fake_data" THEN FakeRegistry ELSE EmptyDict
    /\ synthetic_data = EmptyDict
    /\ warnings = <<>>
    /\ written = FALSE
    /\ draws = {}
    /\ attempts = 0
    /\ pc = "start"
    /\ AuditIdle

\* the table the loop over the generation order is at
table_name == ordered_tables[idx]

\* the row loop written as range(1, records_per_table)
RowsRemainingShort == Len(table_data) < row_counts[table_name] - 1

\* range(1, records_per_table + 1) has iterations left
RowsRemaining == Len(table_data) < row_counts[table_name]

AtTable == pc = "tables" /\ idx <= Len(ordered_tables)

SkipTable(reason) ==
    /\ warnings' = Append(warnings, <<table_name, reason>>)
    /\ idx' = idx + 1
    /\ UNCHANGED <<audit_vars, attempts, driver, schema_metadata, tables, row_counts, lookup_fails, schema_readable,
                   ordered_tables, table_data, id_registry, synthetic_data, written, draws, pc>>

----------------------------------------------------------------------------
(* DataGenerator.generate_data *)

\* data_generator.py:192
GD_Order ==
    /\ pc = "start" /\ driver = "generate_data"
    /\ ordered_tables' = OrderTablesByDependencies(tables)
    /\ idx' = 1
    /\ pc' = "tables"
    /\ UNCHANGED <<audit_vars, attempts, driver, schema_metadata, tables, row_counts, lookup_fails, schema_readable,
                   table_data, id_registry, synthetic_data, warnings, written, draws>>

\* data_generator.py:195-197
GD_SkipNoMetadata ==
    /\ AtTable /\ driver = "generate_data"
    /\ table_name \notin DOMAIN schema_metadata
    /\ SkipTable("no metadata")

\* data_generator.py:202-204
GD_SkipNoPrimaryKey ==
    /\ AtTable /\ driver = "generate_data"
    /\ table_name \in DOMAIN schema_metadata
    /\ schema_metadata[table_name].primary_keys = <<>>
    /\ SkipTable("no primary key")

\* data_generator.py:199-210
GD_BeginTable ==
    /\ AtTable /\ driver = "generate_data"
    /\ table_name \in DOMAIN schema_metadata
    /\ schema_metadata[table_name].primary_keys # <<>>
    /\ table_data' = <<>>
    /\ id_registry' = IF table_name \notin DOMAIN id_registry
                      THEN DictPut(id_registry, table_name, <<>>)
                      ELSE id_registry
    /\ pc' = "rows"
    /\ UNCHANGED <<audit_vars, attempts, driver, schema_metadata, tables, row_counts, lookup_fails, schema_readable,
                   ordered_tables, idx, synthetic_data, warnings, written, draws>>

\* data_generator.py:212-218, one iteration of the record loop
GD_GenerateRecord ==
    /\ pc = "rows" /\ driver = "generate_data"
    /\ RowsRemaining
    /\ LET meta == schema_metadata[table_name]
           i == Len(table_data) + 1
       IN  \E record \in GenerateRecord(meta, i, id_registry) :
              IF RecordRaised(meta, record)
              THEN pc' = "raised" /\ UNCHANGED <<table_data, id_registry, draws>>
              ELSE /\ table_data' = Append(table_data, record)
                   /\ id_registry' = RegisterId(id_registry, table_name, meta.primary_keys[1], record)
                   /\ draws' = draws \cup DrawsOfRecord(table_name, meta, i, record, id_registry)
                   /\ pc' = pc
    /\ UNCHANGED <<audit_vars, attempts, driver, schema_metadata, tables, row_counts, lookup_fails, schema_readable,
                   ordered_tables, idx, synthetic_data, warnings, written>>

\* data_generator.py:220
GD_EndTable ==
    /\ pc = "rows" /\ driver = "generate_data"
    /\ ~RowsRemaining
    /\ synthetic_data' = DictPut(synthetic_data, table_name, table_data)
    /\ idx' = idx + 1
    /\ pc' = "tables"
    /\ UNCHANGED <<audit_vars, attempts, driver, schema_metadata, tables, row_counts, lookup_fails, schema_readable,
                   ordered_tables, table_data, id_registry, warnings, written, draws>>

\* data_generator.py:223
GD_Return ==
    /\ pc = "tables" /\ driver = "generate_data"
    /\ idx > Len(ordered_tables)
    /\ pc' = "done"
    /\ UNCHANGED <<audit_vars, attempts, driver, schema_metadata, tables, row_counts, lookup_fails, schema_readable,
                   ordered_tables, idx, table_data, id_registry, synthetic_data, warnings, written, draws>>

----------------------------------------------------------------------------
(* SyntheticDataGenerator.generate_fake_data, called by run() *)

\* generator.py:234-242
FD_Order ==
    /\ pc = "start" /\ driver = "generate_fake_data"
    /\ ordered_tables' = TablesToGenerate(tables)
    /\ idx' = 1
    /\ pc' = "tables"
    /\ UNCHANGED <<audit_vars, attempts, driver, schema_metadata, tables, row_counts, lookup_fails, schema_readable,
                   table_data, id_registry, synthetic_data, warnings, written, draws>>

\* generator.py:245-247
FD_SkipNotInspected ==
    /\ AtTable /\ driver = "generate_fake_data"
    /\ table_name \notin DOMAIN schema_metadata
    /\ SkipTable("not inspected")

\* generator.py:249-250; primary_keys[0] raises IndexError on an empty list
FD_BeginTable ==
    /\ AtTable /\ driver = "generate_fake_data"
    /\ table_name \in DOMAIN schema_metadata
    /\ table_data' = <<>>
    /\ pc' = IF schema_metadata[table_name].primary_keys = <<>> THEN "raised" ELSE "rows"
    /\ UNCHANGED <<audit_vars, attempts, driver, schema_metadata, tables, row_counts, lookup_fails, schema_readable,
                   ordered_tables, idx, id_registry, synthetic_data, warnings, written, draws>>

\* generator.py:252-258; id_registry[table_name] raises KeyError for a table
\* the constructor did not list
FD_GenerateRecord ==
    /\ pc = "rows" /\ driver = "generate_fake_data"
    /\ RowsRemaining
    /\ LET meta == schema_metadata[table_name]
           i == Len(table_data) + 1
       IN  \E record \in GenerateRecordForTable(meta, i, id_registry) :
              IF RecordRaised(meta, record)
              THEN pc' = "raised" /\ UNCHANGED <<table_data, id_registry, draws>>
              ELSE /\ table_data' = Append(table_data, record)
                   /\ draws' = draws \cup DrawsOfRecord(table_name, meta, i, record, id_registry)
                   /\ IF meta.primary_keys[1] \in DOMAIN record /\ table_name \notin DOMAIN id_registry
                      THEN pc' = "raised" /\ id_registry' = id_registry
                      ELSE /\ pc' = pc
                           /\ id_registry' = RegisterId(id_registry, table_name, meta.primary_keys[1], record)
    /\ UNCHANGED <<audit_vars, attempts, driver, schema_metadata, tables, row_counts, lookup_fails, schema_readable,
                   ordered_tables, idx, synthetic_data, warnings, written>>

\* generator.py:260
FD_EndTable ==
    /\ pc = "rows" /\ driver = "generate_fake_data"
    /\ ~RowsRemaining
    /\ synthetic_data' = DictPut(synthetic_data, table_name, table_data)
    /\ idx' = idx + 1
    /\ pc' = "tables"
    /\ UNCHANGED <<audit_vars, attempts, driver, schema_metadata, tables, row_counts, lookup_fails, schema_readable,
                   ordered_tables, table_data, id_registry, warnings, written, draws>>

\* generator.py:263
FD_Return ==
    /\ pc = "tables" /\ driver = "generate_fake_data"
    /\ idx > Len(ordered_tables)
    /\ pc' = "write"
    /\ UNCHANGED <<audit_vars, attempts, driver, schema_metadata, tables, row_counts, lookup_fails, schema_readable,
                   ordered_tables, idx, table_data, id_registry, synthetic_data, warnings,
                   written, draws>>

\* generator.py:308, save_to_json
FD_SaveToJson ==
    /\ pc = "write" /\ driver = "generate_fake_data"
    /\ written' = TRUE
    /\ pc' = "done"
    /\ UNCHANGED <<audit_vars, attempts, driver, schema_metadata, tables, row_counts, lookup_fails, schema_readable,
                   ordered_tables, idx, table_data, id_registry, synthetic_data, warnings, draws>>

----------------------------------------------------------------------------
(* main.py run_synthesis *)

\* main.py:30; get_all_tables is outside every try block
RS_SchemaUnreadable ==
    /\ pc = "start" /\ driver = "run_synthesis"
    /\ ~schema_readable
    /\ pc' = "raised"
    /\ UNCHANGED <<audit_vars, attempts, driver, schema_metadata, tables, row_counts, lookup_fails, schema_readable,
                   ordered_tables, idx, table_data, id_registry, synthetic_data, warnings,
                   written, draws>>

\* main.py:30-53
RS_Sort ==
    /\ pc = "start" /\ driver = "run_synthesis"
    /\ schema_readable
    /\ ordered_tables' = SortedTables(schema_metadata, tables)
    /\ idx' = 1
    /\ pc' = "tables"
    /\ UNCHANGED <<audit_vars, attempts, driver, schema_metadata, tables, row_counts, lookup_fails, schema_readable,
                   table_data, id_registry, synthetic_data, warnings, written, draws>>

\* main.py:60-70; get_columns raises inside the try block
RS_SkipOnException ==
    /\ AtTable /\ driver = "run_synthesis"
    /\ table_name \in lookup_fails
    /\ SkipTable("exception")

\* main.py:66-70; generate_table_data finds no usable primary key
RS_SkipNoPrimaryKey ==
    /\ AtTable /\ driver = "run_synthesis"
    /\ table_name \notin lookup_fails
    /\ schema_metadata[table_name].primary_keys = <<>>
    /\ SkipTable("no primary key")

\* main.py:62-66, entering generate_table_data
RS_BeginTable ==
    /\ AtTable /\ driver = "run_synthesis"
    /\ table_name \notin lookup_fails
    /\ schema_metadata[table_name].primary_keys # <<>>
    /\ table_data' = <<>>
    /\ id_registry' = IF table_name \notin DOMAIN id_registry
                      THEN DictPut(id_registry, table_name, <<>>)
                      ELSE id_registry
    /\ pc' = "rows"
    /\ UNCHANGED <<audit_vars, attempts, driver, schema_metadata, tables, row_counts, lookup_fails, schema_readable,
                   ordered_tables, idx, synthetic_data, warnings, written, draws>>

\* one sample of a row of generate_table_data: a collision with a used key
\* tuple is resampled within the budget, else the row is accepted and
\* registered
RS_SynthesizeRow ==
    /\ pc = "rows" /\ driver = "run_synthesis"
    /\ RowsRemaining
    /\ LET meta == schema_metadata[table_name]
           i == Len(table_data) + 1
       IN  \E record \in SynthesizeRow(meta, i, id_registry) :
              IF RecordRaised(meta, record)
              THEN \* caught by the except clause at main.py:69
                   /\ warnings' = Append(warnings, <<table_name, "exception">>)
                   /\ idx' = idx + 1
                   /\ pc' = "tables"
                   /\ UNCHANGED <<table_data, id_registry, draws, attempts>>
              ELSE IF MustResample(meta, table_data, record, attempts)
              THEN /\ attempts' = attempts + 1
                   /\ UNCHANGED <<table_data, id_registry, draws, warnings, idx, pc>>
              ELSE /\ table_data' = Append(table_data, record)
                   /\ id_registry' = RegisterId(id_registry, table_name, meta.primary_keys[1], record)
                   /\ draws' = draws \cup DrawsOfRow(table_name, meta, i, record, id_registry)
                   /\ attempts' = 0
                   /\ UNCHANGED <<warnings, idx, pc>>
    /\ UNCHANGED <<audit_vars, driver, schema_metadata, tables, row_counts, lookup_fails, schema_readable,
                   ordered_tables, synthetic_data, written>>

\* main.py:67
RS_EndTable ==
    /\ pc = "rows" /\ driver = "run_synthesis"
    /\ ~RowsRemaining
    /\ synthetic_data' = DictPut(synthetic_data, table_name, table_data)
    /\ idx' = idx + 1
    /\ pc' = "tables"
    /\ UNCHANGED <<audit_vars, attempts, driver, schema_metadata, tables, row_counts, lookup_fails, schema_readable,
                   ordered_tables, table_data, id_registry, warnings, written, draws>>

\* main.py:72-76
RS_Write ==
    /\ pc = "tables" /\ driver = "run_synthesis"
    /\ idx > Len(ordered_tables)
    /\ written' = TRUE
    /\ pc' = "done"
    /\ UNCHANGED <<audit_vars, attempts, driver, schema_metadata, tables, row_counts, lookup_fails, schema_readable,
                   ordered_tables, idx, table_data, id_registry, synthetic_data, warnings, draws>>

----------------------------------------------------------------------------

Next ==
    \/ GD_Order \/ GD_SkipNoMetadata \/ GD_SkipNoPrimaryKey \/ GD_BeginTable
    \/ GD_GenerateRecord \/ GD_EndTable \/ GD_Return
    \/ FD_Order \/ FD_SkipNotInspected \/ FD_BeginTable \/ FD_GenerateRecord
    \/ FD_EndTable \/ FD_Return \/ FD_SaveToJson
    \/ RS_SchemaUnreadable \/ RS_Sort \/ RS_SkipOnException \/ RS_SkipNoPrimaryKey
    \/ RS_BeginTable \/ RS_SynthesizeRow \/ RS_EndTable \/ RS_Write

Spec == Init /\ [][Next]_vars

----------------------------------------------------------------------------
(* The resolvers alone, on every foreign key graph over three tables *)

GraphNames == {"actor", "customer", "rental"}

FkColumnNames == <<"fk1", "fk2", "fk3", "fk4">>

\* a graph gives each table the sequence of tables its foreign keys refer to
Graphs == [GraphNames -> UNION {[1..k -> GraphNames] : k \in 0..MaxGraphFks}]

GraphMeta(g) ==
    [t \in GraphNames |->
        TableMeta(<<IdCol("id")>> \o [k \in 1..Len(g[t]) |-> IdCol(FkColumnNames[k])],
                  <<"id">>,
                  [k \in 1..Len(g[t]) |-> Fk(FkColumnNames[k], g[t][k])])]

Orderings ==
    {s \in [1..Cardinality(GraphNames) -> GraphNames] : Range(s) = GraphNames}

InitOrder ==
    /\ driver \in Drivers
    /\ \E g \in Graphs : schema_metadata = GraphMeta(g)
    /\ tables \in Orderings
    /\ row_counts = [t \in GraphNames |-> 0]
    /\ lookup_fails = {}
    /\ schema_readable = TRUE
    /\ ordered_tables = <<>>
    /\ idx = 0
    /\ table_data = <<>>
    /\ id_registry = IF driver = "generate_fake_data" THEN FakeRegistry ELSE EmptyDict
    /\ synthetic_data = EmptyDict
    /\ warnings = <<>>
    /\ written = FALSE
    /\ draws = {}
    /\ attempts = 0
    /\ pc = "start"
    /\ AuditIdle

NextOrder == GD_Order \/ FD_Order \/ RS_Sort

SpecOrder == InitOrder /\ [][NextOrder]_vars

----------------------------------------------------------------------------
(* Vocabulary of the properties *)

\* position of a table in the generation order, 0 when it is not in it
Pos(t) == IndexOf(ordered_tables, t)

\* the tables a table of the schema references by foreign key
Refs(t) == IF t \in DOMAIN schema_metadata THEN ReferencedTables(schema_metadata[t]) ELSE {}

RECURSIVE RefClosure(_, _)
RefClosure(S, n) ==
    IF n = 0 THEN S ELSE RefClosure(S \cup UNION {Refs(t) : t \in S}, n - 1)

\* the table can reach itself along foreign key references
OnCycle(t) == t \in RefClosure(Refs(t), Cardinality(DOMAIN schema_metadata))

Acyclic == \A t \in DOMAIN schema_metadata : ~OnCycle(t)

\* the foreign key columns of a table
FkColumns(meta) == {c \in ColumnNames(meta) : FkReferredTable(meta, c) # NoTable}

\* the primary key values the dataset holds for a table
PkValues(t) ==
    IF t \in DOMAIN synthetic_data /\ t \in DOMAIN schema_metadata
       /\ schema_metadata[t].primary_keys # <<>>
    THEN {synthetic_data[t][k][schema_metadata[t].primary_keys[1]] : k \in DOMAIN synthetic_data[t]}
    ELSE {}

\* the table has metadata and a primary key
HasUsablePk(t) ==
    t \in DOMAIN schema_metadata /\ schema_metadata[t].primary_keys # <<>>

----------------------------------------------------------------------------
(* Properties *)

\* C1: after a completed run every foreign key value of every row is the
\* primary key of some row of the referenced table in the same dataset.
C1_ReferentialIntegrity ==
    pc = "done" =>
        \A t \in DOMAIN synthetic_data :
            \A k \in DOMAIN synthetic_data[t] :
                \A c \in FkColumns(schema_metadata[t]) :
                    synthetic_data[t][k][c] \in PkValues(FkReferredTable(schema_metadata[t], c))

\* C2: on an acyclic foreign key graph the generation order places every
\* table after all the tables it references.
C2_ParentsFirst ==
    (pc # "start" /\ Acyclic) =>
        \A t \in Range(ordered_tables) :
            \A p \in Refs(t) \cap Range(ordered_tables) : Pos(p) < Pos(t)

\* the first primary key column of a table, the one whose values are registered
PkColumn(t) == schema_metadata[t].primary_keys[1]

\* the keys the registry holds for a table, none when it has no entry
RegistryOf(t) == IF t \in DOMAIN id_registry THEN id_registry[t] ELSE <<>>

\* C3: when a row of table T is about to be generated the registry holds the
\* primary key of every earlier row of T and of every row of every table
\* generated before T, and a foreign key value drawn from the registry is
\* never drawn from the keys of a table that comes later than T in the order.
C3_RegistryVisible ==
    /\ pc = "rows" =>
        /\ RegistryOf(table_name) = [k \in 1..Len(table_data) |-> table_data[k][PkColumn(table_name)]]
        /\ \A j \in 1..(idx - 1) :
              ordered_tables[j] \in DOMAIN synthetic_data =>
                  \A k \in DOMAIN synthetic_data[ordered_tables[j]] :
                      synthetic_data[ordered_tables[j]][k][PkColumn(ordered_tables[j])]
                          \in Range(RegistryOf(ordered_tables[j]))
    /\ \A d \in draws :
          d.src = "registry" =>
              /\ Pos(d.ref) \in 1..Pos(d.table)
              /\ d.value \in Range(d.ids)

\* C3 witness: a later table is mid-way through its rows and has drawn a
\* foreign key from the registry of an earlier table
C3_Witness ==
    /\ driver = "generate_data" /\ pc = "rows" /\ idx >= 2 /\ Len(table_data) >= 1
    /\ \E d \in draws : d.table = table_name /\ d.src = "registry" /\ Pos(d.ref) < idx

\* C4: the k-th row generated for a table receives primary key value k, and
\* each key is in the registry before the next row is generated.
C4_SequentialKeys ==
    driver = "generate_data" =>
        /\ pc = "rows" =>
              /\ \A k \in DOMAIN table_data :
                    \A c \in Range(schema_metadata[table_name].primary_keys) : table_data[k][c] = k
              /\ id_registry[table_name] = [k \in 1..Len(table_data) |-> k]
        /\ \A t \in DOMAIN synthetic_data :
              \A k \in DOMAIN synthetic_data[t] :
                  \A c \in Range(schema_metadata[t].primary_keys) : synthetic_data[t][k][c] = k

\* C4 witness: two rows of a table have been generated and registered
C4_Witness ==
    /\ driver = "generate_data" /\ pc = "rows" /\ Len(table_data) >= 2
    /\ Len(id_registry[table_name]) >= 2

\* C5: every foreign key column, primary key column or not, gets a member of
\* the referenced table's registry when that registry is non-empty and an
\* integer in 1..10 when it is empty or the referenced table is unknown.
C5_ForeignKeyFromRegistry ==
    driver \in {"generate_data", "generate_fake_data"} =>
        \A d \in draws :
            IF d.ids # <<>> THEN d.value \in Range(d.ids)
            ELSE d.value \in FallbackMin..FallbackMax

\* C6: a table without metadata or without primary key is skipped with a
\* warning and without raising; the run goes on and the dataset has no entry
\* for the table.
C6_SkippedWithoutRaising ==
    driver \in {"generate_data", "generate_fake_data"} =>
        /\ pc = "raised" => HasUsablePk(table_name)
        /\ pc = "done" =>
              \A t \in Range(tables) :
                  ~HasUsablePk(t) =>
                      /\ t \notin DOMAIN synthetic_data
                      /\ \E k \in DOMAIN warnings : warnings[k][1] = t

\* C7: an exception raised while one table is synthesized skips that table
\* only; the run halts on nothing but an unreadable schema source, every
\* other table is processed and the dataset is written.
C7_OnlyThatTableSkipped ==
    driver \in {"run_synthesis", "generate_fake_data"} =>
        /\ pc = "raised" => ~schema_readable
        /\ pc = "done" =>
              /\ written
              /\ \A t \in Range(ordered_tables) :
                    \/ t \in DOMAIN synthetic_data
                    \/ \E k \in DOMAIN warnings : warnings[k][1] = t

Resolved == idx >= 1

\* the number of foreign key columns a table declares
FkCountOf(t) == Cardinality(FkColumns(schema_metadata[t]))

\* C9: the resolver's output is the input tables sorted ascending by number
\* of foreign keys, ties broken by table name; it holds every input table
\* exactly once.
C9_SortedByFkCount ==
    Resolved =>
        /\ Len(ordered_tables) = Len(tables)
        /\ Range(ordered_tables) = Range(tables)
        /\ \A i \in DOMAIN ordered_tables : \A j \in DOMAIN ordered_tables :
              i < j =>
                  \/ FkCountOf(ordered_tables[i]) < FkCountOf(ordered_tables[j])
                  \/ /\ FkCountOf(ordered_tables[i]) = FkCountOf(ordered_tables[j])
                     /\ StrLess(ordered_tables[i], ordered_tables[j])

\* C10: on a schema with a self-referencing table or mutually referencing
\* tables the resolver returns every table, generation does not raise, the
\* tables on the cycle get their rows, and a foreign key whose referenced
\* registry is still empty gets the fallback value.
C10_CyclesTolerated ==
    (\E t \in DOMAIN schema_metadata : OnCycle(t)) =>
        /\ (Resolved /\ driver \in {"generate_data", "run_synthesis"}) =>
              Range(ordered_tables) = Range(tables)
        /\ driver = "generate_data" =>
              /\ pc # "raised"
              /\ pc = "done" =>
                    \A t \in Range(tables) :
                        (OnCycle(t) /\ HasUsablePk(t)) =>
                            /\ t \in DOMAIN synthetic_data
                            /\ Len(synthetic_data[t]) = row_counts[t]
              /\ \A d \in draws :
                    (d.ids = <<>> /\ d.src # "record_id") =>
                        /\ d.src = "fallback"
                        /\ d.value \in FallbackMin..FallbackMax

\* C10 witness: a self-referencing table has been generated, its first row
\* from the fallback and a later row from its own registry
C10_Witness ==
    /\ driver = "generate_data" /\ pc = "done"
    /\ \E t \in DOMAIN synthetic_data :
          /\ OnCycle(t) /\ t \in Refs(t)
          /\ Len(synthetic_data[t]) >= 2
          /\ \E d \in draws : d.table = t /\ d.ref = t /\ d.src = "fallback"
          /\ \E d \in draws : d.table = t /\ d.ref = t /\ d.src = "registry"

----------------------------------------------------------------------------
(* Termination *)

\* the interpreter runs a started entry point on: whenever a step of the run
\* is possible, one is taken
SpecLive == Init /\ [][Next]_vars /\ WF_vars(Next)

----------------------------------------------------------------------------
(* Determinism *)

\* the rows the running entry point can produce for the next row of the
\* table.  No entry point takes a seed and Faker() is constructed without
\* one, so its stream starts from the entropy of the operating system: what
\* a run is given is its initial state, and a draw is any value of its range.
NextRowChoices ==
    LET meta == schema_metadata[table_name]
        i == Len(table_data) + 1
    IN  CASE driver = "generate_data"      -> GenerateRecord(meta, i, id_registry)
          [] driver = "generate_fake_data" -> GenerateRecordForTable(meta, i, id_registry)
          [] OTHER                         -> SynthesizeRow(meta, i, id_registry)

\* C12: two runs that are given the same schema, row counts and seed produce
\* the same dataset, that is, what a run has been given determines every row
\* it generates: at each row there is exactly one row the generator can return.
C12_Deterministic ==
    (pc = "rows" /\ RowsRemaining) => Cardinality(NextRowChoices) = 1

----------------------------------------------------------------------------
(* Composite keys *)

\* the rows a table has so far: those of the dataset, or those of the table
\* the row loop is at
RowsOf(t) ==
    IF pc = "rows" /\ t = table_name THEN table_data
    ELSE IF t \in DOMAIN synthetic_data THEN synthetic_data[t]
    ELSE <<>>

\* C13: in a table whose primary key is composite and made of foreign key
\* columns only, every key component of every row comes from foreign key
\* sampling (the referenced registry or the fallback) and no two rows of the
\* table have the same key tuple.
C13_CompositeKeySampled ==
    driver \in {"generate_data", "generate_fake_data"} =>
        \A t \in DOMAIN schema_metadata :
            CompositeAllFk(schema_metadata[t]) =>
                /\ \A d \in draws :
                      (d.table = t /\ d.col \in Range(schema_metadata[t].primary_keys)) =>
                          d.src \in {"registry", "fallback"}
                /\ \A j \in DOMAIN RowsOf(t) : \A k \in DOMAIN RowsOf(t) :
                      j # k => KeyTuple(schema_metadata[t], RowsOf(t)[j])
                                   # KeyTuple(schema_metadata[t], RowsOf(t)[k])

----------------------------------------------------------------------------
(* Scenario A *)

----------------------------------------------------------------------------
(* The validators read synthetic_foundation.json and query the source       *)
(* database.  String operations work on code points.                        *)

\* str.endswith(suffix)
EndsWith(cs, suffix) ==
    Len(cs) >= Len(suffix) /\ SubSeq(cs, Len(cs) - Len(suffix) + 1, Len(cs)) = suffix

\* `sub in cs`
Contains(cs, sub) ==
    \E k \in 0..(Len(cs) - Len(sub)) : SubSeq(cs, k + 1, k + Len(sub)) = sub

\* str.replace(sub, ''): the occurrences of sub removed from the left
RECURSIVE Remove(_, _)
Remove(cs, sub) ==
    IF Len(cs) < Len(sub) THEN cs
    ELSE IF SubSeq(cs, 1, Len(sub)) = sub THEN Remove(SubSeq(cs, Len(sub) + 1, Len(cs)), sub)
    ELSE <<Head(cs)>> \o Remove(Tail(cs), sub)

\* '_id'
IdSuffix == <<95, 105, 100>>

\* ["email", "first_name", "last_name", "phone"]
PiiKeywords == {<<101, 109, 97, 105, 108>>,
                <<102, 105, 114, 115, 116, 95, 110, 97, 109, 101>>,
                <<108, 97, 115, 116, 95, 110, 97, 109, 101>>,
                <<112, 104, 111, 110, 101>>}

\* the name a code point string spells; NoTable when it is no known name
NameOf(cs) ==
    IF \E n \in DOMAIN NameChars : NameChars[n] = cs
    THEN CHOOSE n \in DOMAIN NameChars : NameChars[n] = cs
    ELSE NoTable

\* name.lower() as code points
LowerChars(name) ==
    [k \in DOMAIN NameChars[name] |->
        IF NameChars[name][k] \in 65..90 THEN NameChars[name][k] + 32 ELSE NameChars[name][k]]

\* name.lower() as a name
LowerName(name) == NameOf(LowerChars(name))

\* str(v).lower() of a cell value
StrLower(v) ==
    CASE v = None    -> "none"
      [] v = "Bob@x" -> "bob@x"
      [] OTHER       -> v

\* a foreign key as get_foreign_keys reports it, with the referred column
FkTo(col, ref, ref_col) ==
    [constrained_columns |-> <<col>>, referred_table |-> ref, referred_columns |-> <<ref_col>>]

\* the customer and rental schema, the key order of its dataset file and
\* the contents the source database can have
ShopAudit ==
    [tables |-> <<"customer", "rental">>,
     meta |-> [customer |-> TableMeta(<<IdCol("customer_id"), Col("email", "VARCHAR(50)", TRUE),
                                        Col("create_date", "DATE", FALSE)>>,
                                      <<"customer_id">>, <<>>),
               rental   |-> TableMeta(<<IdCol("rental_id"), IdCol("customer_id")>>,
                                      <<"rental_id">>,
                                      <<FkTo("customer_id", "customer", "customer_id")>>)],
     sources |-> {[customer |-> <<>>, rental |-> <<>>],
                  [customer |-> <<[customer_id |-> 1, email |-> "ann@x", create_date |-> "2019-03-01"]>>,
                   rental   |-> <<[rental_id |-> 1, customer_id |-> 1]>>],
                  [customer |-> <<[customer_id |-> 1, email |-> "bob@x", create_date |-> "2019-03-01"],
                                  [customer_id |-> 2, email |-> None, create_date |-> "2019-03-01"]>>,
                   rental   |-> <<[rental_id |-> 1, customer_id |-> 2],
                                  [rental_id |-> 2, customer_id |-> 2]>>]}]

\* the staff and store schema: foreign key columns whose names do not spell
\* the referenced table
StaffAudit ==
    [tables |-> <<"staff", "store">>,
     meta |-> [staff |-> TableMeta(<<IdCol("staff_id"), IdCol("reports_to")>>,
                                   <<"staff_id">>, <<FkTo("reports_to", "staff", "staff_id")>>),
               store |-> TableMeta(<<IdCol("store_id"), IdCol("manager_staff_id")>>,
                                   <<"store_id">>,
                                   <<FkTo("manager_staff_id", "staff", "staff_id")>>)],
     sources |-> {[staff |-> <<[staff_id |-> 1, reports_to |-> 1]>>,
                   store |-> <<[store_id |-> 1, manager_staff_id |-> 1]>>]}]

\* bound: rows per table of the datasets the validators are run on
MaxAuditRows == 2

\* bound: rows of the table whose column the skew check is called on
MaxSkewRows == 10

\* bounds: rows of the source table and of the synthetic table whose null
\* rates are compared; within them the floating point percentages compare as
\* the exact ones do
MaxSourceRows == 2
MaxNullRows == 20

\* bound: keys reserved for the table sample_unique is called on
MaxReserved == 3

\* the values cell k of a column can hold in a dataset file: sequential
\* primary keys, any small integer for a foreign key, text or null else
CellValues(meta, column_name, k) ==
    IF column_name \in Range(meta.primary_keys) THEN {k}
    ELSE IF FkReferredTable(meta, column_name) # NoTable THEN 1..MaxAuditRows
    ELSE IF column_name = "email" THEN {"ann@x", "Bob@x", None}
    ELSE {"2024-01-05"}

RECURSIVE FileRowsUpTo(_, _, _)
FileRowsUpTo(meta, j, k) ==
    IF j = 0 THEN {EmptyDict}
    ELSE {DictPut(r, meta.columns[j].name, v) :
             r \in FileRowsUpTo(meta, j - 1, k),
             v \in CellValues(meta, meta.columns[j].name, k)}

\* the sequences of n rows a table of a dataset file can hold
RECURSIVE TableRows(_, _)
TableRows(meta, n) ==
    IF n = 0 THEN {<<>>}
    ELSE {Append(rows, r) : rows \in TableRows(meta, n - 1),
                            r \in FileRowsUpTo(meta, Len(meta.columns), n)}

\* the dataset files over the first j tables of a schema
RECURSIVE DatasetsOver(_, _)
DatasetsOver(schema, j) ==
    IF j = 0 THEN {EmptyDict}
    ELSE {DictPut(d, schema.tables[j], rows) :
             d \in DatasetsOver(schema, j - 1),
             rows \in UNION {TableRows(schema.meta[schema.tables[j]], n) : n \in 0..MaxAuditRows}}

InitValidate ==
    /\ driver \in {"validate_shadow_database", "comprehensive_validation"}
    /\ \E schema \in {ShopAudit, StaffAudit} :
          /\ schema_metadata = schema.meta
          /\ source_db \in schema.sources
          /\ \/ /\ written = TRUE
                /\ tables = schema.tables
                /\ synthetic_data \in DatasetsOver(schema, Len(schema.tables))
                /\ lookup_fails \in {{}} \cup {{t} : t \in Range(schema.tables)}
             \/ /\ written = FALSE
                /\ tables = <<>>
                /\ synthetic_data = EmptyDict
                /\ lookup_fails = {}
    /\ row_counts = EmptyDict
    /\ schema_readable = TRUE
    /\ ordered_tables = <<>>
    /\ idx = 0
    /\ table_data = <<>>
    /\ id_registry = EmptyDict
    /\ warnings = <<>>
    /\ draws = {}
    /\ attempts = 0
    /\ pc = "start"
    /\ structured_pk_map = EmptyDict
    /\ all_leaks = {}
    /\ orphan_count = 0
    /\ total_fk_checks = 0
    /\ report = EmptyDict
    /\ exit_code = <<>>
    /\ probe_column = EmptyDict
    /\ probe_value = <<>>
    /\ dest_db = [types |-> {}, tables |-> EmptyDict]
    /\ connection = <<>>
    /\ executed = <<>>

\* what the validators never change
audit_inputs == <<driver, schema_metadata, tables, row_counts, lookup_fails, schema_readable,
                  ordered_tables, idx, table_data, id_registry, synthetic_data, warnings,
                  written, draws, attempts, source_db, probe_column, probe_value,
                  dest_db, connection, executed>>

\* the columns of pd.DataFrame(rows)
DfColumns(rows) == IF rows = <<>> THEN {} ELSE DOMAIN rows[1]

\* set(df[col].unique())
UniqueValues(rows, col) == {rows[k][col] : k \in DOMAIN rows}

----------------------------------------------------------------------------
(* validator.py validate_shadow_database *)

\* "SELECT {col} FROM {table} LIMIT 1000"
SampleLimit == 1000

\* the query raises: the source has no such table or no such column
QueryRaises(t, col) ==
    \/ t \in lookup_fails
    \/ t \notin DOMAIN source_db
    \/ source_db[t] # <<>> /\ col \notin DOMAIN source_db[t][1]

\* {str(r[0]).lower() for r in conn.execute(query)}
RealValues(t, col) ==
    {StrLower(source_db[t][k][col]) : k \in 1..(IF Len(source_db[t]) < SampleLimit
                                                THEN Len(source_db[t]) ELSE SampleLimit)}

\* {str(v).lower() for v in df_synth[col]}
SynthValues(t, col) == {StrLower(synthetic_data[t][k][col]) : k \in DOMAIN synthetic_data[t]}

\* validator.py:52-54
IsPiiColumn(col) ==
    /\ \E pii \in PiiKeywords : Contains(LowerChars(col), pii)
    /\ ~EndsWith(LowerChars(col), IdSuffix)

\* the tables of the file that have rows (`if not rows: continue`)
NonEmptyTables == {t \in Range(tables) : synthetic_data[t] # <<>>}

\* structured_pk_map.get(table, {}).get(column, set())
ParentIds(pk_map, table, column) ==
    IF table \in DOMAIN pk_map /\ column \in DOMAIN pk_map[table]
    THEN pk_map[table][column]
    ELSE {}

\* validator.py:22-27
VS_FileNotFound ==
    /\ pc = "start" /\ driver = "validate_shadow_database"
    /\ ~written
    /\ report' = DictPut(report, "error", "not found")
    /\ exit_code' = <<0>>
    /\ pc' = "done"
    /\ UNCHANGED <<audit_inputs, structured_pk_map, all_leaks, orphan_count, total_fk_checks>>

\* validator.py:29-67, the loop that builds the key map and looks for leaks
VS_Scan ==
    LET
        \* validator.py:44-47, every column whose name ends in _id counts as a key
        HeuristicPkMap ==
            [ct \in {LowerName(t) : t \in NonEmptyTables} |->
                LET t == CHOOSE u \in NonEmptyTables : LowerName(u) = ct
                    id_cols == {c \in DfColumns(synthetic_data[t]) : EndsWith(LowerChars(c), IdSuffix)}
                IN  [cl \in {LowerName(c) : c \in id_cols} |->
                        UniqueValues(synthetic_data[t], CHOOSE c \in id_cols : LowerName(c) = cl)]]
        \* validator.py:56-67, the leaks found; a query that raises skips the column
        LeaksFound ==
            {[table |-> t, col |-> c,
              matches |-> Cardinality(RealValues(t, c) \cap SynthValues(t, c))] :
                <<t, c>> \in {x \in UNION {{<<u, d>> : d \in DfColumns(synthetic_data[u])} : u \in NonEmptyTables} :
                                /\ IsPiiColumn(x[2])
                                /\ ~QueryRaises(x[1], x[2])
                                /\ RealValues(x[1], x[2]) \cap SynthValues(x[1], x[2]) # {}}}
    IN
        /\ pc = "start" /\ driver = "validate_shadow_database"
        /\ written
        /\ structured_pk_map' = HeuristicPkMap
        /\ all_leaks' = LeaksFound
        /\ pc' = "integrity"
        /\ UNCHANGED <<audit_inputs, orphan_count, total_fk_checks, report, exit_code>>

\* validator.py:69-82
VS_Integrity ==
    LET
        \* validator.py:71-82, the cells the integrity loop counts as orphans
        HeuristicOrphans(pk_map) ==
            {x \in UNION {{<<t, k, c>> : k \in DOMAIN synthetic_data[t], c \in DfColumns(synthetic_data[t])} :
                              t \in Range(tables)} :
                /\ EndsWith(LowerChars(x[3]), IdSuffix)
                /\ ~Contains(LowerChars(x[3]), LowerChars(x[1]))
                /\ synthetic_data[x[1]][x[2]][x[3]]
                       \notin ParentIds(pk_map, NameOf(Remove(LowerChars(x[3]), IdSuffix)), LowerName(x[3]))}
    IN
        /\ pc = "integrity" /\ driver = "validate_shadow_database"
        /\ orphan_count' = Cardinality(HeuristicOrphans(structured_pk_map))
        /\ pc' = "report"
        /\ UNCHANGED <<audit_inputs, structured_pk_map, all_leaks, total_fk_checks, report, exit_code>>

\* validator.py:84-95; the function returns and the process exits normally
VS_Report ==
    /\ pc = "report" /\ driver = "validate_shadow_database"
    /\ report' = [privacy   |-> IF all_leaks = {} THEN "PASS" ELSE "FAIL",
                  integrity |-> [verdict |-> IF orphan_count = 0 THEN "PASS" ELSE "FAIL",
                                 orphans |-> orphan_count]]
    /\ exit_code' = <<0>>
    /\ pc' = "done"
    /\ UNCHANGED <<audit_inputs, structured_pk_map, all_leaks, orphan_count, total_fk_checks>>

----------------------------------------------------------------------------
(* comprehensive_validator.py comprehensive_validation *)

\* list(...)[:n]
FirstOf(seq, n) == SubSeq(seq, 1, IF Len(seq) < n THEN Len(seq) ELSE n)

\* the source answers nothing for the table: queries and inspection raise
SourceRaises(t) == t \in lookup_fails \/ t \notin DOMAIN source_db

\* the cell is null; key cells of a dataset file hold integers
IsNull(t, rows, k, col) ==
    col \notin KeyColumns(schema_metadata[t]) /\ rows[k][col] = None

\* the tables whose value distribution is analysed
SkewTables == 3

\* the concentration, in percent, above which a column is reported skewed
SkewThreshold == 30

\* value_counts().iloc[0]: the count of the most frequent non-null value
TopCount(t, rows, col) ==
    LET vals == {rows[k][col] : k \in {j \in DOMAIN rows : ~IsNull(t, rows, j, col)}}
        count(v) == Cardinality({k \in DOMAIN rows : ~IsNull(t, rows, k, col) /\ rows[k][col] = v})
    IN  IF vals = {} THEN 0
        ELSE count(CHOOSE v \in vals : \A w \in vals : count(w) <= count(v))

\* the tables, the columns per table and the lines of the null analysis
NullTables == 5
NullColumns == 3
NullLines == 10

\* the gap, in percentage points, from which the null rates are said to differ
NullThreshold == 5

\* abs(source_null_pct - synth_null_pct) < 5, the percentages n / total * 100
\* (0 when there are no rows) compared without division
NullRatesMatch(sn, st, yn, yt) ==
    LET a == IF st > 0 THEN sn ELSE 0
        b == IF st > 0 THEN st ELSE 1
        c == IF yt > 0 THEN yn ELSE 0
        d == IF yt > 0 THEN yt ELSE 1
        gap == IF a * d >= c * b THEN a * d - c * b ELSE c * b - a * d
    IN  gap * 100 < NullThreshold * b * d

\* comprehensive_validator.py:98-112, the lines of one table; a table the
\* source cannot answer for is skipped by the except clause
NullLinesOfTable(t) ==
    IF SourceRaises(t) THEN <<>>
    ELSE LET cols == FirstOf([k \in DOMAIN schema_metadata[t].columns |->
                                 schema_metadata[t].columns[k].name], NullColumns)
             seen == SelectSeq(cols, LAMBDA c : c \in DfColumns(synthetic_data[t]))
         IN  [k \in DOMAIN seen |->
                 [table |-> t, col |-> seen[k],
                  status |-> IF NullRatesMatch(
                                    Cardinality({j \in DOMAIN source_db[t] :
                                                    IsNull(t, source_db[t], j, seen[k])}),
                                    Len(source_db[t]),
                                    Cardinality({j \in DOMAIN synthetic_data[t] :
                                                    IsNull(t, synthetic_data[t], j, seen[k])}),
                                    Len(synthetic_data[t]))
                             THEN "MATCH" ELSE "DIFFER"]]

RECURSIVE NullLinesUpTo(_)
NullLinesUpTo(j) ==
    IF j = 0 THEN <<>>
    ELSE NullLinesUpTo(j - 1) \o NullLinesOfTable(tables[j])

\* the tables whose foreign key ratios are printed
RatioTables == 5

\* ['date', 'time', 'created', 'updated']
TemporalKeywords == {<<100, 97, 116, 101>>,
                     <<116, 105, 109, 101>>,
                     <<99, 114, 101, 97, 116, 101, 100>>,
                     <<117, 112, 100, 97, 116, 101, 100>>}

\* pd.to_datetime(..., errors='coerce'): the day as a number, 0 for NaT
ParseDate(v) ==
    CASE v = "2024-01-05" -> 20240105
      [] v = "2019-03-01" -> 20190301
      [] OTHER            -> 0

\* comprehensive_validator.py:194-207, the foreign key cells examined: every
\* constrained column of every declared foreign key that the row holds
FkCells ==
    UNION {UNION {{[table |-> t, row |-> x[1], col |-> x[2].constrained_columns[i],
                    parent |-> LowerName(x[2].referred_table),
                    parent_col |-> LowerName(IF i <= Len(x[2].referred_columns)
                                             THEN x[2].referred_columns[i]
                                             ELSE x[2].referred_columns[1])] :
                      i \in {j \in DOMAIN x[2].constrained_columns :
                                x[2].constrained_columns[j] \in DOMAIN synthetic_data[t][x[1]]}} :
                  x \in (DOMAIN synthetic_data[t]) \X Range(schema_metadata[t].foreign_keys)} :
           t \in Range(tables)}

\* comprehensive_validator.py:32-37
CV_FileNotFound ==
    /\ pc = "start" /\ driver = "comprehensive_validation"
    /\ ~written
    /\ report' = DictPut(report, "error", "not found")
    /\ exit_code' = <<0>>
    /\ pc' = "done"
    /\ UNCHANGED <<audit_inputs, structured_pk_map, all_leaks, orphan_count, total_fk_checks>>

\* comprehensive_validator.py:39-65, metric 1
CV_Cardinality ==
    LET
        \* comprehensive_validator.py:53-63, one line per table of the file
        CardinalityRows ==
            [t \in Range(tables) |->
                IF SourceRaises(t) THEN "Error"
                ELSE IF Len(source_db[t]) = Len(synthetic_data[t]) THEN "MATCH"
                ELSE "DIFFER"]
    IN
        /\ pc = "start" /\ driver = "comprehensive_validation"
        /\ written
        /\ report' = DictPut(report, "cardinality",
                             [lines |-> CardinalityRows,
                              pass |-> \A t \in Range(tables) : CardinalityRows[t] # "DIFFER"])
        /\ pc' = "distribution"
        /\ UNCHANGED <<audit_inputs, structured_pk_map, all_leaks, orphan_count, total_fk_checks,
                       exit_code>>

\* a skew check that flags a share of exactly the threshold
SkewLineFromThreshold(col, is_text, top_value, total) ==
    IF EndsWith(LowerChars(col), IdSuffix) \/ ~is_text THEN <<>>
    ELSE <<IF top_value * 100 >= SkewThreshold * total THEN "HIGH SKEW" ELSE "OK">>

\* comprehensive_validator.py:79-86, what is printed for one column: nothing
\* for a column whose name ends in _id or that holds no text, else the skew
\* status of top_value / len(df_synth) * 100
SkewLine(col, is_text, top_value, total) ==
    IF EndsWith(LowerChars(col), IdSuffix) \/ ~is_text THEN <<>>
    ELSE <<IF top_value * 100 > SkewThreshold * total THEN "HIGH SKEW" ELSE "OK">>

\* comprehensive_validator.py:67-87, metric 2
CV_Distribution ==
    LET
        \* comprehensive_validator.py:71-87
        DistributionLines ==
            {[table |-> t, col |-> c,
              unique |-> Cardinality({synthetic_data[t][k][c] :
                                         k \in {j \in DOMAIN synthetic_data[t] :
                                                   ~IsNull(t, synthetic_data[t], j, c)}}),
              skew |-> SkewLine(c, TRUE, TopCount(t, synthetic_data[t], c),
                                Len(synthetic_data[t]))[1]] :
                <<t, c>> \in {x \in UNION {{<<u, d>> : d \in DfColumns(synthetic_data[u])} :
                                              u \in Range(FirstOf(tables, SkewTables)) \cap NonEmptyTables} :
                                SkewLine(x[2], x[2] \notin KeyColumns(schema_metadata[x[1]]),
                                         0, 1) # <<>>}}
    IN
        /\ pc = "distribution" /\ driver = "comprehensive_validation"
        /\ report' = DictPut(report, "distribution", DistributionLines)
        /\ pc' = "nulls"
        /\ UNCHANGED <<audit_inputs, structured_pk_map, all_leaks, orphan_count, total_fk_checks,
                       exit_code>>

\* comprehensive_validator.py:89-121, metric 3
CV_NullRates ==
    LET
        \* comprehensive_validator.py:95-119, cut off after ten lines
        NullAnalysis ==
            FirstOf(NullLinesUpTo(Len(FirstOf(tables, NullTables))), NullLines)
    IN
        /\ pc = "nulls" /\ driver = "comprehensive_validation"
        /\ report' = DictPut(report, "nulls", NullAnalysis)
        /\ pc' = "relationships"
        /\ UNCHANGED <<audit_inputs, structured_pk_map, all_leaks, orphan_count, total_fk_checks,
                       exit_code>>

\* comprehensive_validator.py:123-159, metric 4; get_pk_constraint is called
\* outside every try block, for each table that has rows
CV_Relationships ==
    LET
        \* comprehensive_validator.py:128-141, the key map built from the declared
        \* primary keys of the tables that have rows
        SchemaPkMap ==
            [ct \in {LowerName(t) : t \in NonEmptyTables} |->
                LET t == CHOOSE u \in NonEmptyTables : LowerName(u) = ct
                    pk_columns == {c \in Range(schema_metadata[t].primary_keys) :
                                      c \in DfColumns(synthetic_data[t])}
                IN  [cl \in {LowerName(c) : c \in pk_columns} |->
                        UniqueValues(synthetic_data[t], CHOOSE c \in pk_columns : LowerName(c) = cl)]]
        \* comprehensive_validator.py:145-159: rows and distinct values of every
        \* column that looks like a foreign key
        RelationshipLines ==
            {[table |-> t, col |-> c, rows |-> Len(synthetic_data[t]),
              parents |-> Cardinality(UniqueValues(synthetic_data[t], c))] :
                <<t, c>> \in {x \in UNION {{<<u, d>> : d \in DfColumns(synthetic_data[u])} :
                                              u \in Range(FirstOf(tables, RatioTables)) \cap NonEmptyTables} :
                                /\ EndsWith(LowerChars(x[2]), IdSuffix)
                                /\ ~Contains(LowerChars(x[2]), LowerChars(x[1]))}}
    IN
        /\ pc = "relationships" /\ driver = "comprehensive_validation"
        /\ IF \E t \in NonEmptyTables : SourceRaises(t)
           THEN /\ pc' = "raised"
                /\ exit_code' = <<1>>
                /\ UNCHANGED <<structured_pk_map, report>>
           ELSE /\ structured_pk_map' = SchemaPkMap
                /\ report' = DictPut(report, "relationships", RelationshipLines)
                /\ pc' = "temporal"
                /\ UNCHANGED exit_code
        /\ UNCHANGED <<audit_inputs, all_leaks, orphan_count, total_fk_checks>>

\* a metric 5 that parses the date columns of the loaded rows in place and
\* not in a frame built from them
CV_TemporalInPlace ==
    /\ pc = "temporal" /\ driver = "comprehensive_validation"
    /\ synthetic_data' =
          [t \in DOMAIN synthetic_data |->
              [k \in DOMAIN synthetic_data[t] |->
                  [c \in DOMAIN synthetic_data[t][k] |->
                      IF /\ \E kw \in TemporalKeywords : Contains(LowerChars(c), kw)
                         /\ c \notin KeyColumns(schema_metadata[t])
                      THEN IF ParseDate(synthetic_data[t][k][c]) = 0 THEN "NaT" ELSE "Timestamp"
                      ELSE synthetic_data[t][k][c]]]]
    /\ report' = DictPut(report, "temporal", {})
    /\ pc' = "integrity"
    /\ UNCHANGED <<driver, schema_metadata, tables, row_counts, lookup_fails, schema_readable,
                   ordered_tables, idx, table_data, id_registry, warnings, written, draws,
                   attempts, source_db, probe_column, probe_value, structured_pk_map,
                   all_leaks, orphan_count, total_fk_checks, exit_code,
                   dest_db, connection, executed>>

\* comprehensive_validator.py:161-185, metric 5
CV_Temporal ==
    LET
        \* comprehensive_validator.py:166-182
        TemporalLines ==
            {[table |-> x[1], col |-> x[2],
              min |-> LET ds == {ParseDate(synthetic_data[x[1]][k][x[2]]) : k \in DOMAIN synthetic_data[x[1]]} \ {0}
                      IN  CHOOSE d \in ds : \A e \in ds : d <= e,
              max |-> LET ds == {ParseDate(synthetic_data[x[1]][k][x[2]]) : k \in DOMAIN synthetic_data[x[1]]} \ {0}
                      IN  CHOOSE d \in ds : \A e \in ds : d >= e] :
                x \in {y \in UNION {{<<u, d>> : d \in DfColumns(synthetic_data[u])} : u \in NonEmptyTables} :
                          /\ \E kw \in TemporalKeywords : Contains(LowerChars(y[2]), kw)
                          /\ y[2] \notin KeyColumns(schema_metadata[y[1]])
                          /\ \E k \in DOMAIN synthetic_data[y[1]] :
                                 ParseDate(synthetic_data[y[1]][k][y[2]]) # 0}}
    IN
        /\ pc = "temporal" /\ driver = "comprehensive_validation"
        /\ report' = DictPut(report, "temporal", TemporalLines)
        /\ pc' = "integrity"
        /\ UNCHANGED <<audit_inputs, structured_pk_map, all_leaks, orphan_count, total_fk_checks,
                       exit_code>>

\* comprehensive_validator.py:187-220, metric 6; get_foreign_keys is called
\* outside every try block, for each table of the file
CV_Integrity ==
    LET
        \* comprehensive_validator.py:208-215
        OrphanCells(pk_map) ==
            {x \in FkCells :
                synthetic_data[x.table][x.row][x.col] \notin ParentIds(pk_map, x.parent, x.parent_col)}
    IN
        /\ pc = "integrity" /\ driver = "comprehensive_validation"
        /\ IF \E t \in Range(tables) : SourceRaises(t)
           THEN /\ pc' = "raised"
                /\ exit_code' = <<1>>
                /\ UNCHANGED <<orphan_count, total_fk_checks, report>>
           ELSE /\ total_fk_checks' = Cardinality(FkCells)
                /\ orphan_count' = Cardinality(OrphanCells(structured_pk_map))
                /\ report' = DictPut(report, "integrity",
                                     [verdict |-> IF Cardinality(OrphanCells(structured_pk_map)) = 0
                                                  THEN "PASS" ELSE "FAIL",
                                      orphans |-> Cardinality(OrphanCells(structured_pk_map)),
                                      checks |-> Cardinality(FkCells)])
                /\ pc' = "summary"
                /\ UNCHANGED exit_code
        /\ UNCHANGED <<audit_inputs, structured_pk_map, all_leaks>>

\* comprehensive_validator.py:222-238; the function returns None and the
\* script ends without sys.exit, so the process exits with status 0
CV_Summary ==
    /\ pc = "summary" /\ driver = "comprehensive_validation"
    /\ report' = DictPut(report, "summary", report["integrity"].verdict)
    /\ exit_code' = <<0>>
    /\ pc' = "done"
    /\ UNCHANGED <<audit_inputs, structured_pk_map, all_leaks, orphan_count, total_fk_checks>>

NextValidate ==
    \/ VS_FileNotFound \/ VS_Scan \/ VS_Integrity \/ VS_Report
    \/ CV_FileNotFound \/ CV_Cardinality \/ CV_Distribution \/ CV_NullRates
    \/ CV_Relationships \/ CV_Temporal \/ CV_Integrity \/ CV_Summary

SpecValidate == InitValidate /\ [][NextValidate]_vars

----------------------------------------------------------------------------
(* Claims about validation *)

\* C15: when a validation run over a dataset file ends, the orphan counter
\* equals the number of cells of schema-declared foreign key columns whose
\* value is not among the values of the referenced primary key column in the
\* synthetic rows of the referenced table, and the verdict is PASS exactly
\* when the counter is zero.
C15_IntegrityByDeclaredKeys ==
    (driver \in {"validate_shadow_database", "comprehensive_validation"} /\ written /\ pc = "done") =>
        LET cells == UNION {UNION {{<<t, x[1], x[2], i>> : i \in DOMAIN x[2].constrained_columns} :
                                      x \in (DOMAIN synthetic_data[t]) \X Range(schema_metadata[t].foreign_keys)} :
                               t \in DOMAIN synthetic_data}
            parent_ids(fk, i) ==
                IF fk.referred_table \in DOMAIN synthetic_data
                   /\ fk.referred_columns[i] \in Range(schema_metadata[fk.referred_table].primary_keys)
                THEN {synthetic_data[fk.referred_table][k][fk.referred_columns[i]] :
                         k \in DOMAIN synthetic_data[fk.referred_table]}
                ELSE {}
            orphans == {c \in cells :
                           synthetic_data[c[1]][c[2]][c[3].constrained_columns[c[4]]]
                               \notin parent_ids(c[3], c[4])}
        IN  /\ orphan_count = Cardinality(orphans)
            /\ report["integrity"].verdict = "PASS" <=> orphan_count = 0

\* C16: a comprehensive validation run over a dataset file, however it ends,
\* has reported all six metrics: an exception inside one check leaves the
\* results of the other five in the report.
C16_ChecksIsolated ==
    (driver = "comprehensive_validation" /\ written /\ pc \in {"done", "raised"}) =>
        Cardinality({"cardinality", "distribution", "nulls", "relationships", "temporal",
                     "integrity"} \ DOMAIN report) <= 1

\* C17: when a comprehensive validation run ends with a non-zero orphan
\* count n, the report says FAIL with n orphaned references, the exit status
\* of the process is non-zero, and the other five metrics are in the report.
C17_FailureSignalled ==
    (driver = "comprehensive_validation" /\ written /\ pc = "done" /\ orphan_count > 0) =>
        /\ report["integrity"].verdict = "FAIL"
        /\ report["integrity"].orphans = orphan_count
        /\ exit_code # <<0>>
        /\ {"cardinality", "distribution", "nulls", "relationships", "temporal"}
               \subseteq DOMAIN report

\* C18: when validate_shadow_database ends over a dataset file, the privacy
\* verdict is FAIL exactly when some column whose name holds a PII keyword has
\* a synthetic value among the sampled real values of that column, and it is
\* PASS only if every such column of a table with rows was compared with the
\* source and shared no value with it.
C18_PrivacyVerdict ==
    (driver = "validate_shadow_database" /\ written /\ pc = "done") =>
        LET pii == {x \in UNION {{<<t, c>> : c \in DOMAIN synthetic_data[t][1]} :
                                    t \in {u \in DOMAIN synthetic_data : synthetic_data[u] # <<>>}} :
                       \E kw \in PiiKeywords : Contains(LowerChars(x[2]), kw)}
            compared(x) == ~QueryRaises(x[1], x[2])
            shared(x) == RealValues(x[1], x[2]) \cap SynthValues(x[1], x[2]) # {}
        IN  /\ report["privacy"] = "FAIL" <=> \E x \in pii : compared(x) /\ shared(x)
            /\ report["privacy"] = "PASS" => \A x \in pii : compared(x) /\ ~shared(x)

----------------------------------------------------------------------------
(* Functions called on their own: _generate_value_for_column on one column *)
(* for every declared type string and column name in a small range, and    *)
(* the threshold tests of comprehensive_validation on counts               *)

\* declared types as str(column['type']) renders them: the recognised
\* ones, a length that is no number, an array, and types no branch names
ProbeTypes ==
    {"INTEGER", "VARCHAR(50)", "VARCHAR(255)", "VARCHAR(MAX)", "TEXT", "TEXT[]",
     "NUMERIC(5, 2)", "BOOLEAN", "DATE", "TIMESTAMP", "JSONB", "mpaa_rating"}

InitValue ==
    /\ \/ /\ driver \in {"generate_data", "generate_fake_data"}
          /\ \E n \in {"email", "title", "rating", "notes", "address2"}, ty \in ProbeTypes,
                nullable \in BOOLEAN, labels \in {<<>>, <<"G", "PG">>} :
                /\ ty # "mpaa_rating" => labels = <<>>
                /\ probe_column = [name |-> n, type |-> ty, nullable |-> nullable,
                                   enum_labels |-> labels]
       \/ /\ driver = "comprehensive_validation"
          /\ \E n \in {"email", "create_date", "customer_id", "staff_id"}, is_text \in BOOLEAN,
                total \in 1..MaxSkewRows :
                \E top_value \in 0..total :
                   probe_column = [name |-> n, is_text |-> is_text, top_value |-> top_value,
                                   total |-> total]
       \/ /\ driver = "run_synthesis"
          /\ \E n \in 1..MaxReserved, exclusion_set \in SUBSET (1..MaxReserved) :
                probe_column = [reserved |-> [k \in 1..n |-> k], exclusion_set |-> exclusion_set]
       \/ /\ driver = "comprehensive_validation"
          /\ \E total \in 0..MaxSourceRows, synth_total \in 0..MaxNullRows :
                \E null_count \in 0..total, synth_nulls \in 0..synth_total :
                   probe_column = [null_count |-> null_count, total |-> total,
                                   synth_nulls |-> synth_nulls, synth_total |-> synth_total]
    /\ probe_value = <<>>
    /\ schema_metadata = EmptyDict
    /\ tables = <<>>
    /\ row_counts = EmptyDict
    /\ lookup_fails = {}
    /\ schema_readable = TRUE
    /\ ordered_tables = <<>>
    /\ idx = 0
    /\ table_data = <<>>
    /\ id_registry = EmptyDict
    /\ synthetic_data = EmptyDict
    /\ warnings = <<>>
    /\ written = FALSE
    /\ draws = {}
    /\ attempts = 0
    /\ pc = "start"
    /\ source_db = EmptyDict
    /\ structured_pk_map = EmptyDict
    /\ all_leaks = {}
    /\ orphan_count = 0
    /\ total_fk_checks = 0
    /\ report = EmptyDict
    /\ exit_code = <<>>
    /\ dest_db = [types |-> {}, tables |-> EmptyDict]
    /\ connection = <<>>
    /\ executed = <<>>

\* what a call of the value generator never changes
probe_inputs == <<driver, schema_metadata, tables, row_counts, lookup_fails, schema_readable,
                  ordered_tables, idx, table_data, id_registry, synthetic_data, warnings,
                  written, draws, attempts, source_db, structured_pk_map, all_leaks,
                  orphan_count, total_fk_checks, report, exit_code, probe_column,
                  dest_db, connection, executed>>

\* data_generator.py:37-131, DataGenerator._generate_value_for_column returns
GV_Return ==
    /\ pc = "start" /\ driver = "generate_data"
    /\ \E v \in GenerateValueForColumn(probe_column.name, probe_column.type, probe_column.nullable) :
          probe_value' = <<v>>
    /\ pc' = "done"
    /\ UNCHANGED probe_inputs

\* generator.py:82-173, SyntheticDataGenerator._generate_value_for_column
\* returns, or an exception leaves it
FV_Return ==
    /\ pc = "start" /\ driver = "generate_fake_data"
    /\ \E v \in FakeValueForColumn(probe_column.name, probe_column.type, probe_column.nullable) :
          IF v = ValueError
          THEN pc' = "raised" /\ UNCHANGED probe_value
          ELSE pc' = "done" /\ probe_value' = <<v>>
    /\ UNCHANGED probe_inputs

\* comprehensive_validator.py:79-86, the skew status of one column
CV_SkewStatus ==
    /\ pc = "start" /\ driver = "comprehensive_validation"
    /\ "top_value" \in DOMAIN probe_column
    /\ probe_value' = SkewLine(probe_column.name, probe_column.is_text, probe_column.top_value,
                               probe_column.total)
    /\ pc' = "done"
    /\ UNCHANGED probe_inputs

\* comprehensive_validator.py:103-110, the status of one table/column pair
CV_NullStatus ==
    /\ pc = "start" /\ driver = "comprehensive_validation"
    /\ "synth_nulls" \in DOMAIN probe_column
    /\ probe_value' = <<IF NullRatesMatch(probe_column.null_count, probe_column.total,
                                          probe_column.synth_nulls, probe_column.synth_total)
                        THEN "MATCH" ELSE "DIFFER">>
    /\ pc' = "done"
    /\ UNCHANGED probe_inputs

\* the retry budget of sample_unique
MaxUniqueAttempts == 50

\* a sample_unique that fails once its budget is used up
sample_unique_or_fail ==
    /\ pc = "start" /\ driver = "run_synthesis"
    /\ \E v \in Range(probe_column.reserved) :
          IF attempts < MaxUniqueAttempts
          THEN /\ attempts' = attempts + 1
               /\ IF v \notin probe_column.exclusion_set
                  THEN probe_value' = <<v>> /\ pc' = "done"
                  ELSE UNCHANGED <<probe_value, pc>>
          ELSE /\ pc' = "raised"
               /\ UNCHANGED <<probe_value, attempts>>
    /\ UNCHANGED <<driver, schema_metadata, tables, row_counts, lookup_fails, schema_readable,
                   ordered_tables, idx, table_data, id_registry, synthetic_data, warnings,
                   written, draws, source_db, structured_pk_map, all_leaks, orphan_count,
                   total_fk_checks, report, exit_code, probe_column,
                   dest_db, connection, executed>>

\* sample_unique(table, exclusion_set) of the Identity Registry, one attempt
\* per step: a reserved value of the table is sampled and returned when it is
\* not excluded; after the last attempt of the budget has failed, a sampled
\* value is returned as it is
sample_unique ==
    /\ pc = "start" /\ driver = "run_synthesis"
    /\ \E v \in Range(probe_column.reserved) :
          IF attempts < MaxUniqueAttempts
          THEN /\ attempts' = attempts + 1
               /\ IF v \notin probe_column.exclusion_set
                  THEN probe_value' = <<v>> /\ pc' = "done"
                  ELSE UNCHANGED <<probe_value, pc>>
          ELSE /\ probe_value' = <<v>>
               /\ pc' = "done"
               /\ UNCHANGED attempts
    /\ UNCHANGED <<driver, schema_metadata, tables, row_counts, lookup_fails, schema_readable,
                   ordered_tables, idx, table_data, id_registry, synthetic_data, warnings,
                   written, draws, source_db, structured_pk_map, all_leaks, orphan_count,
                   total_fk_checks, report, exit_code, probe_column,
                   dest_db, connection, executed>>

NextValue == GV_Return \/ FV_Return \/ CV_SkewStatus \/ CV_NullStatus \/ sample_unique

SpecValue == InitValue /\ [][NextValue]_vars

\* C19: a call of the value generator never raises, whatever the declared
\* type string; once it has returned there is a value for the column, and for
\* a type no branch recognises that value is the generic word (or null for a
\* nullable column).
C19_ValueGenerationTotal ==
    /\ "type" \in DOMAIN probe_column => pc # "raised"
    /\ ("type" \in DOMAIN probe_column /\ pc = "done") =>
           /\ Len(probe_value) = 1
           /\ TypeKeywords(probe_column.type) = {} => probe_value[1] \in {"word", None}

\* C20: the value generated for an enum-typed column with a non-empty
\* declared label domain is null or one of the labels.
C20_EnumInDomain ==
    ("type" \in DOMAIN probe_column /\ pc = "done"
        /\ probe_column.enum_labels # <<>>) =>
        probe_value[1] = None \/ probe_value[1] \in Range(probe_column.enum_labels)

\* C23: no step of a validation run changes the synthetic dataset or the
\* identity registry, so the rows every check reads are the rows that were
\* loaded.
C23_DatasetReadOnly ==
    [][synthetic_data' = synthetic_data /\ id_registry' = id_registry]_vars

\* C23 witness: a comprehensive validation has run to its end over a dataset
\* file whose date column was parsed by the temporal check, and the column
\* still holds the text that was loaded
C23_Witness ==
    /\ driver = "comprehensive_validation" /\ written /\ pc = "done"
    /\ \E line \in report["temporal"] :
          synthetic_data[line.table][1][line.col] = "2024-01-05"

----------------------------------------------------------------------------
(* Claims about the registry and about null values *)

\* C27: at every point of a synthesis run the registry entry of each table
\* that has a primary key is the sequence of the primary key values of the
\* rows generated so far for that table, whatever the name of the table; a
\* table without an entry counts as having the empty sequence.
C27_RegistryMirrorsRows ==
    driver \in Drivers =>
        \A t \in {u \in DOMAIN schema_metadata : schema_metadata[u].primary_keys # <<>>} :
            LET rows == IF pc \in {"rows", "raised"} /\ idx \in DOMAIN ordered_tables
                           /\ t = table_name
                        THEN table_data
                        ELSE IF t \in DOMAIN synthetic_data THEN synthetic_data[t] ELSE <<>>
                keyed == SelectSeq(rows, LAMBDA r : PkColumn(t) \in DOMAIN r)
            IN  RegistryOf(t) = [k \in DOMAIN keyed |-> keyed[k][PkColumn(t)]]

\* C21: sample_unique makes at most 50 attempts and never raises; the value
\* it returns is a reserved value of the table, and it is in the exclusion
\* set only if all 50 attempts have failed.
C21_SampleUniqueBounded ==
    "exclusion_set" \in DOMAIN probe_column =>
        /\ attempts <= 50
        /\ pc # "raised"
        /\ pc = "done" =>
              /\ probe_value[1] \in Range(probe_column.reserved)
              /\ probe_value[1] \in probe_column.exclusion_set => attempts = 50

\* C21 witness: every reserved value is excluded, 50 attempts have failed and
\* an excluded value has been returned
C21_Witness ==
    /\ "exclusion_set" \in DOMAIN probe_column /\ pc = "done"
    /\ attempts = 50
    /\ probe_value[1] \in probe_column.exclusion_set

\* C26: the value generator never returns null for a column declared
\* non-nullable; null is returned only for a nullable column.
C26_NullOnlyWhenNullable ==
    ("type" \in DOMAIN probe_column /\ pc = "done" /\ ~probe_column.nullable) =>
        probe_value[1] # None

----------------------------------------------------------------------------
(* Claims about the thresholds of comprehensive_validation *)

\* C24: the null-rate check says DIFFER exactly when the source and the
\* synthetic null percentages are more than 5 points apart, and MATCH
\* otherwise, a gap of exactly 5 points included (a table without rows has
\* the percentage 0).
C24_DifferAboveFivePoints ==
    ("synth_nulls" \in DOMAIN probe_column /\ pc = "done") =>
        LET sn == IF probe_column.total > 0 THEN probe_column.null_count ELSE 0
            st == IF probe_column.total > 0 THEN probe_column.total ELSE 1
            yn == IF probe_column.synth_total > 0 THEN probe_column.synth_nulls ELSE 0
            yt == IF probe_column.synth_total > 0 THEN probe_column.synth_total ELSE 1
            above == \/ 100 * sn * yt - 100 * yn * st > 5 * st * yt
                     \/ 100 * yn * st - 100 * sn * yt > 5 * st * yt
        IN  probe_value = IF above THEN <<"DIFFER">> ELSE <<"MATCH">>

\* C25: the skew check says HIGH SKEW for a text column exactly when the
\* count of its most frequent value is more than 30% of the rows of the
\* table, and OK otherwise; it says nothing for a column whose name ends in
\* _id or that holds no text.
C25_SkewAboveThirtyPercent ==
    ("top_value" \in DOMAIN probe_column /\ pc = "done") =>
        IF probe_column.name \in {"customer_id", "staff_id"} \/ ~probe_column.is_text
        THEN probe_value = <<>>
        ELSE probe_value = IF 10 * probe_column.top_value > 3 * probe_column.total
                           THEN <<"HIGH SKEW">> ELSE <<"OK">>

\* C25 witness: the check has run on a text column whose most frequent
\* value makes up exactly 30% of the rows, and has said OK
C25_Witness ==
    /\ "top_value" \in DOMAIN probe_column /\ pc = "done"
    /\ probe_column.name = "email" /\ probe_column.is_text
    /\ probe_column.top_value = 3 /\ probe_column.total = 10
    /\ probe_value = <<"OK">>

----------------------------------------------------------------------------
(* loader.py load_synthetic_data *)

\* bound: the batches the largest table of the dataset file is inserted in
MaxBatches == 2

\* loader.py:93
batch_size == 500

\* loader.py:49-54; table.foreign_keys holds one ForeignKey for every
\* constrained column of every foreign key constraint of the reflected table
calculate_dependency_score(meta, t) ==
    IF t \notin DOMAIN meta THEN 0
    ELSE Cardinality(UNION {{k} \X (DOMAIN meta[t].foreign_keys[k].constrained_columns) :
                               k \in DOMAIN meta[t].foreign_keys})

\* what load_synthetic_data never changes
load_inputs == <<driver, schema_metadata, tables, row_counts, lookup_fails, schema_readable,
                 table_data, id_registry, synthetic_data, written, draws, attempts,
                 source_db, structured_pk_map, all_leaks, orphan_count, total_fk_checks,
                 report, exit_code, probe_column, probe_value>>

\* The loader starts from a dataset file run_synthesis wrote (or from none):
\* `tables` is the key order of the file, which is the order main.py:51 sorted
\* the tables in, `row_counts` the number of rows under each key. The counts
\* main.py sorted by are those get_real_foreign_keys returned, an empty dict
\* for the tables in `hidden` (db_inspector.py:121-124). Since the synthesis
\* the source may have lost a table no other table refers to. The destination
\* holds nothing, or the tables and the types of an earlier restore.
InitLoad ==
    /\ driver = "load_synthetic_data"
    /\ LET GeoSchema ==
               [tables |-> <<"city", "country", "address">>,
                meta |-> [country |-> TableMeta(<<IdCol("country_id")>>, <<"country_id">>, <<>>),
                          city    |-> TableMeta(<<IdCol("city_id"), IdCol("country_id")>>,
                                                <<"city_id">>, <<Fk("country_id", "country")>>),
                          address |-> TableMeta(<<IdCol("address_id"), IdCol("city_id")>>,
                                                <<"address_id">>, <<Fk("city_id", "city")>>)]]
           DestTypes == {[typname |-> "mpaa_rating", typtype |-> "e"],
                         [typname |-> "bool_enum", typtype |-> "e"],
                         [typname |-> "year", typtype |-> "d"]}
           LoadSizes == {0, 1} \cup {batch_size * k + d : k \in 1..(MaxBatches - 1), d \in {0, 1}}
       IN  \E schema \in {ShopSchema, StaffStoreSchema, GeoSchema} :
             /\ \E gone \in {{}} \cup {{t} : t \in {u \in DOMAIN schema.meta :
                                   \A v \in DOMAIN schema.meta : u \notin ReferencedTables(schema.meta[v])}} :
                   schema_metadata = [t \in (DOMAIN schema.meta) \ gone |-> schema.meta[t]]
             /\ \/ /\ written = FALSE
                   /\ tables = <<>>
                   /\ row_counts = EmptyDict
                \/ /\ written = TRUE
                   /\ \E hidden \in SUBSET (DOMAIN schema.meta) :
                         tables = SortedTables([t \in DOMAIN schema.meta |->
                                                   IF t \in hidden
                                                   THEN [schema.meta[t] EXCEPT !.foreign_keys = <<>>]
                                                   ELSE schema.meta[t]],
                                               AllTables(schema))
                   /\ row_counts \in [DOMAIN schema.meta -> LoadSizes]
             /\ \E types \in {{}, DestTypes}, old \in {{}, DOMAIN schema.meta} :
                   dest_db = [types |-> types, tables |-> [t \in old |-> 1]]
    /\ connection = <<>>
    /\ executed = <<>>
    /\ lookup_fails = {}
    /\ schema_readable = TRUE
    /\ ordered_tables = <<>>
    /\ idx = 0
    /\ table_data = <<>>
    /\ id_registry = EmptyDict
    /\ synthetic_data = EmptyDict
    /\ warnings = <<>>
    /\ draws = {}
    /\ attempts = 0
    /\ pc = "start"
    /\ source_db = EmptyDict
    /\ structured_pk_map = EmptyDict
    /\ all_leaks = {}
    /\ orphan_count = 0
    /\ total_fk_checks = 0
    /\ report = EmptyDict
    /\ exit_code = <<>>
    /\ probe_column = EmptyDict
    /\ probe_value = <<>>

\* loader.py:24-28, create_database_if_not_exists raises
LD_DatabaseUnavailable ==
    /\ pc = "start" /\ driver = "load_synthetic_data"
    /\ pc' = "done"
    /\ UNCHANGED <<load_inputs, ordered_tables, idx, warnings, dest_db, connection, executed>>

\* loader.py:35-40
LD_FileNotFound ==
    /\ pc = "start" /\ driver = "load_synthetic_data"
    /\ ~written
    /\ pc' = "done"
    /\ UNCHANGED <<load_inputs, ordered_tables, idx, warnings, dest_db, connection, executed>>

\* loader.py:42-59; sorted() with the score as its only key is stable: a
\* table goes behind the tables of a smaller score and behind the tables of
\* the same score that come before it in the file
LD_Order ==
    /\ pc = "start" /\ driver = "load_synthetic_data"
    /\ written
    /\ LET score(t) == calculate_dependency_score(schema_metadata, t)
           before(t) == {u \in Range(tables) :
                            \/ score(u) < score(t)
                            \/ score(u) = score(t) /\ IndexOf(tables, u) < IndexOf(tables, t)}
       IN  ordered_tables' = [k \in DOMAIN tables |->
                                 CHOOSE t \in Range(tables) : Cardinality(before(t)) = k - 1]
    /\ idx' = 1
    /\ pc' = "types"
    /\ UNCHANGED <<load_inputs, warnings, dest_db, connection, executed>>

\* loader.py:61-71, one transaction: every enum type of the public schema is
\* dropped; a DROP that fails is passed over, but it aborts the transaction,
\* the drops after it fail as well and the commit at the end of the block
\* rolls everything back
LD_DropTypes ==
    /\ pc = "types" /\ driver = "load_synthetic_data"
    /\ LET enums == {ty \in dest_db.types : ty.typtype = "e"}
       IN  \E dropped \in BOOLEAN :
              /\ enums = {} => dropped
              /\ dest_db' = IF dropped THEN [dest_db EXCEPT !.types = @ \ enums] ELSE dest_db
    /\ pc' = "tables"
    /\ UNCHANGED <<load_inputs, ordered_tables, idx, warnings, connection, executed>>

\* loader.py:74-76
LD_SkipEmpty ==
    /\ AtTable /\ driver = "load_synthetic_data"
    /\ row_counts[table_name] = 0
    /\ idx' = idx + 1
    /\ UNCHANGED <<load_inputs, ordered_tables, warnings, pc, dest_db, connection, executed>>

\* loader.py:82, 106-107
LD_SkipNotInSchema ==
    /\ AtTable /\ driver = "load_synthetic_data"
    /\ row_counts[table_name] # 0
    /\ table_name \notin DOMAIN schema_metadata
    /\ warnings' = Append(warnings, <<table_name, "not found in source schema">>)
    /\ idx' = idx + 1
    /\ UNCHANGED <<load_inputs, ordered_tables, pc, dest_db, connection, executed>>

\* loader.py:85-90, the transaction of a table is opened, the table dropped and
\* created again. CREATE TABLE fails when a table it refers to does not exist;
\* either statement can fail for other reasons. A failure leaves the with
\* block by an exception: the transaction is rolled back, the except clause at
\* loader.py:109 prints and the loop goes on
LD_RecreateTable ==
    /\ AtTable /\ driver = "load_synthetic_data"
    /\ row_counts[table_name] # 0
    /\ table_name \in DOMAIN schema_metadata
    /\ LET others == [t \in (DOMAIN dest_db.tables) \ {table_name} |-> dest_db.tables[t]]
           missing == \E ref \in ReferencedTables(schema_metadata[table_name]) \ {table_name} :
                         ref \notin DOMAIN others
       IN  \E outcome \in {"drop fails", "create fails", "created"} :
              /\ missing => outcome # "created"
              /\ IF outcome = "created"
                 THEN /\ connection' = <<DictPut(others, table_name, 0)>>
                      /\ executed' = executed \o <<<<"DROP TABLE", table_name>>,
                                                   <<"CREATE TABLE", table_name>>>>
                      /\ pc' = "insert"
                      /\ UNCHANGED <<warnings, idx>>
                 ELSE /\ connection' = <<>>
                      /\ executed' = IF outcome = "create fails"
                                     THEN Append(executed, <<"DROP TABLE", table_name>>)
                                     ELSE executed
                      /\ warnings' = Append(warnings, <<table_name, "failed to load">>)
                      /\ idx' = idx + 1
                      /\ UNCHANGED pc
    /\ UNCHANGED <<load_inputs, ordered_tables, dest_db>>

\* a loader whose connection commits every statement on its own
LD_InsertBatchAutocommit ==
    /\ pc = "insert" /\ driver = "load_synthetic_data"
    /\ connection[1][table_name] < row_counts[table_name]
    /\ \E inserted \in BOOLEAN :
          IF inserted
          THEN /\ connection' = <<[connection[1] EXCEPT ![table_name] =
                                     IF @ + batch_size < row_counts[table_name]
                                     THEN @ + batch_size ELSE row_counts[table_name]]>>
               /\ executed' = Append(executed, <<"INSERT", table_name>>)
               /\ UNCHANGED <<warnings, idx, pc, dest_db>>
          ELSE /\ connection' = <<>>
               /\ dest_db' = [dest_db EXCEPT !.tables = connection[1]]
               /\ warnings' = Append(warnings, <<table_name, "failed to load">>)
               /\ idx' = idx + 1
               /\ pc' = "tables"
               /\ UNCHANGED executed
    /\ UNCHANGED <<load_inputs, ordered_tables>>

\* loader.py:96-103, one batch rows[i:i+batch_size] is inserted; a failure
\* rolls the transaction back and the loop over the tables goes on
LD_InsertBatch ==
    /\ pc = "insert" /\ driver = "load_synthetic_data"
    /\ connection[1][table_name] < row_counts[table_name]
    /\ \E inserted \in BOOLEAN :
          IF inserted
          THEN /\ connection' = <<[connection[1] EXCEPT ![table_name] =
                                     IF @ + batch_size < row_counts[table_name]
                                     THEN @ + batch_size ELSE row_counts[table_name]]>>
               /\ executed' = Append(executed, <<"INSERT", table_name>>)
               /\ UNCHANGED <<warnings, idx, pc, dest_db>>
          ELSE /\ connection' = <<>>
               /\ dest_db' = dest_db
               /\ warnings' = Append(warnings, <<table_name, "failed to load">>)
               /\ idx' = idx + 1
               /\ pc' = "tables"
               /\ UNCHANGED executed
    /\ UNCHANGED <<load_inputs, ordered_tables>>

\* loader.py:85, 104-105, the end of the with block commits the transaction;
\* a commit that fails leaves nothing behind
LD_Commit ==
    /\ pc = "insert" /\ driver = "load_synthetic_data"
    /\ connection[1][table_name] = row_counts[table_name]
    /\ \E committed \in BOOLEAN :
          IF committed
          THEN /\ dest_db' = [dest_db EXCEPT !.tables = connection[1]]
               /\ UNCHANGED warnings
          ELSE /\ warnings' = Append(warnings, <<table_name, "failed to load">>)
               /\ UNCHANGED dest_db
    /\ connection' = <<>>
    /\ idx' = idx + 1
    /\ pc' = "tables"
    /\ UNCHANGED <<load_inputs, ordered_tables, executed>>

\* loader.py:112-114
LD_Return ==
    /\ pc = "tables" /\ driver = "load_synthetic_data"
    /\ idx > Len(ordered_tables)
    /\ pc' = "done"
    /\ UNCHANGED <<load_inputs, ordered_tables, idx, warnings, dest_db, connection, executed>>

NextLoad ==
    \/ LD_DatabaseUnavailable \/ LD_FileNotFound \/ LD_Order \/ LD_DropTypes
    \/ LD_SkipEmpty \/ LD_SkipNotInSchema \/ LD_RecreateTable \/ LD_InsertBatch
    \/ LD_Commit \/ LD_Return

SpecLoad == InitLoad /\ [][NextLoad]_vars

----------------------------------------------------------------------------
(* Claims about load_synthetic_data *)

\* C22: once the loader has created a table, no enum type of the destination
\* is left undropped; every INSERT into a table comes after that table's DROP
\* and CREATE; and the loader processes the tables in the order the dependency
\* resolver produced for the synthesis, which is the key order of the file.
C22_TypesFirstResolverOrder ==
    driver = "load_synthetic_data" =>
        /\ (\E k \in DOMAIN executed : executed[k][1] = "CREATE TABLE") =>
               \A ty \in dest_db.types : ty.typtype # "e"
        /\ \A k \in DOMAIN executed :
               executed[k][1] = "INSERT" =>
                   \E i, j \in 1..(k - 1) :
                       /\ i < j
                       /\ executed[i] = <<"DROP TABLE", executed[k][2]>>
                       /\ executed[j] = <<"CREATE TABLE", executed[k][2]>>
        /\ idx >= 1 => ordered_tables = tables

\* C28: a table whose restore fails leaves the committed destination as it
\* was and the loop moves to the next table; the committed destination only
\* ever changes by one whole table, all of its rows, at the commit of that
\* table's transaction.
C28_AtomicPerTable ==
    [][(driver = "load_synthetic_data" /\ pc \in {"tables", "insert"}) =>
          /\ (/\ Len(warnings') > Len(warnings)
              /\ warnings'[Len(warnings')][2] = "failed to load") =>
                 /\ dest_db' = dest_db
                 /\ connection' = <<>>
                 /\ idx' = idx + 1 /\ pc' = "tables"
          /\ dest_db' # dest_db =>
                 /\ dest_db'.types = dest_db.types
                 /\ dest_db'.tables = DictPut(dest_db.tables, table_name, row_counts[table_name])
                 /\ idx' = idx + 1 /\ pc' = "tables"]_vars

\* C28 witness: the second batch of a table failed after its first batch had
\* been inserted, the destination still holds the single row it held before,
\* and a table later in the order has been restored with all of its rows
C28_Witness ==
    /\ driver = "load_synthetic_data" /\ pc = "done"
    /\ \E t, u \in Range(ordered_tables) :
          /\ <<t, "failed to load">> \in Range(warnings)
          /\ <<"INSERT", t>> \in Range(executed)
          /\ row_counts[t] > batch_size
          /\ t \in DOMAIN dest_db.tables /\ dest_db.tables[t] = 1
          /\ IndexOf(ordered_tables, t) < IndexOf(ordered_tables, u)
          /\ <<"INSERT", u>> \in Range(executed)
          /\ row_counts[u] > batch_size
          /\ u \in DOMAIN dest_db.tables /\ dest_db.tables[u] = row_counts[u]

====
